---- MODULE Spec2Model ----
(***************************************************************************)
(* Sevino object storage: the storage engine of src/services.rs.           *)
(* State: the bucket registry, object_index and etag_index held in memory, *)
(* and the bucket directories, bucket.json files, metadata sidecars and    *)
(* data files held on disk.  One action per request handler; each action   *)
(* runs the whole handler as one step (sequential histories).              *)
(***************************************************************************)
EXTENDS Integers, Sequences, FiniteSets, TLC

\* ------------------------------------------------------------------ bounds
\* Largest value of the wall clock (Utc::now) the timed specification explores.
MaxClock == 1
\* Largest reference_count, and largest length of one etag_index list, a put
\* may produce under Spec.
MaxRefCount == 1
MaxEtagIds == 2
\* The same two limits under SpecDeep, which follows repeated Reference puts.
DeepMaxRefCount == 2
DeepMaxEtagIds == 3

\* ----------------------------------------------------------- option values
None == <<>>
Some(x) == <<x>>
IsSome(o) == o # <<>>
Unwrap(o) == o[1]

\* ------------------------------------------------------------ finite maps
EmptyMap == <<>>
MapPut(f, k, v) == [x \in (DOMAIN f) \cup {k} |-> IF x = k THEN v ELSE f[x]]
MapDel(f, k) == [x \in (DOMAIN f) \ {k} |-> f[x]]
MapGet(f, k) == IF k \in DOMAIN f THEN Some(f[k]) ELSE None

\* ----------------------------------------------------------------- inputs
\* Names and keys are sequences of one-character strings.
B1 == <<"p">>
B2 == <<"q">>
BadBucketName == <<"-", "p">>
BucketNames == {B1, B2, BadBucketName}
CoreNames == {B1}

KA == <<"a", ".", "t", "x", "t">>
KB == <<"b">>
KDotDot == <<".", ".">>
Keys == {KA, KB, KDotDot}

\* The (bucket, key) pairs the object requests name.
Targets == {<<B1, KA>>, <<B1, KB>>, <<B1, KDotDot>>, <<B2, KA>>}
CoreTargets == {<<B1, KA>>, <<B1, KB>>}

\* The keys of the listing example, all in bucket B1.
KPhotoA == <<"p", "h", "o", "t", "o", "s", "/", "2", "0", "2", "4", "/", "a", ".", "j", "p", "g">>
KPhotoB == <<"p", "h", "o", "t", "o", "s", "/", "2", "0", "2", "4", "/", "b", ".", "j", "p", "g">>
KPhotoC == <<"p", "h", "o", "t", "o", "s", "/", "2", "0", "2", "3", "/", "c", ".", "j", "p", "g">>
KDocX == <<"d", "o", "c", "s", "/", "x", ".", "t", "x", "t">>
ListKeys == {KPhotoA, KPhotoB, KPhotoC, KDocX}

\* Object bodies: sequences of bytes.
DX == <<1>>
DY == <<2, 2>>
Datas == {DX, DY}

OctetStream == "application/octet-stream"
ContentTypes == {OctetStream}

UM0 == EmptyMap
UM1 == [test |-> "reference"]
UserMetas == {UM0, UM1}

Modes == {"Reject", "Allow", "Reference"}

\* ------------------------------------------------------------------ state
VARIABLES
    buckets,        \* registry: bucket name -> Bucket
    object_index,   \* bucket -> (key -> object id)
    etag_index,     \* bucket -> (etag -> sequence of object ids)
    bucket_dirs,    \* bucket directories on disk
    bucket_json,    \* bucket -> contents of .sevino.meta/bucket.json
    sidecars,       \* <<bucket, object id>> -> ObjectMetadata on disk
    datafiles,      \* <<bucket, object id>> -> bytes on disk
    clock,          \* Utc::now()
    last,           \* the last completed request and its reply
    tasks,          \* the requests in flight: task id -> its call and position
    locks           \* the RwLocks of StorageService: who holds each

vars == <<buckets, object_index, etag_index, bucket_dirs, bucket_json,
          sidecars, datafiles, clock, last, tasks, locks>>

StoreVars == <<buckets, object_index, etag_index, bucket_dirs, bucket_json,
               sidecars, datafiles>>

\* The storage state the handlers thread through their steps.
St == [buckets |-> buckets, object_index |-> object_index,
       etag_index |-> etag_index, bucket_dirs |-> bucket_dirs,
       bucket_json |-> bucket_json, sidecars |-> sidecars,
       datafiles |-> datafiles]

\* ------------------------------------------------------------- utils.rs
sha256_hash(bytes) == <<"sha256", bytes>>
md5_hash(data) == <<"md5", data>>
generate_etag(data) == <<"\"", md5_hash(data), "\"">>

Letters == {"a","b","c","d","e","f","g","h","i","j","k","l","m","n","o","p",
            "q","r","s","t","u","v","w","x","y","z"}
Digits == {"0","1","2","3","4","5","6","7","8","9"}
is_alphanumeric(c) == c \in Letters \cup Digits
is_numeric(c) == c \in Digits

validate_bucket_name(name) ==
    IF Len(name) = 0 THEN "empty"
    ELSE IF Len(name) > 63 THEN "too_long"
    ELSE IF ~(\A i \in 1..Len(name) : is_alphanumeric(name[i]) \/ name[i] = "-")
        THEN "bad_char"
    ELSE IF name[1] = "-" \/ name[Len(name)] = "-" THEN "hyphen"
    ELSE IF is_numeric(name[1]) THEN "starts_with_number"
    ELSE "ok"

contains_dotdot(key) ==
    \E i \in 1..(Len(key) - 1) : key[i] = "." /\ key[i + 1] = "."

validate_object_key(key) ==
    IF Len(key) = 0 THEN "empty"
    ELSE IF Len(key) > 1024 THEN "too_long"
    ELSE IF contains_dotdot(key) THEN "dotdot"
    ELSE "ok"

\* Path::extension of the final path component: the text after its last
\* dot, when that dot is not the component's first character.
LastIndexOf(s, c) ==
    LET idx == {i \in 1..Len(s) : s[i] = c}
    IN IF idx = {} THEN 0 ELSE CHOOSE i \in idx : \A j \in idx : j <= i
FileName(key) == SubSeq(key, LastIndexOf(key, "/") + 1, Len(key))
Extension(key) ==
    LET f == FileName(key)
        d == LastIndexOf(f, ".")
    IN IF d <= 1 THEN <<>> ELSE SubSeq(f, d + 1, Len(f))

get_mime_type(filename) ==
    LET ext == Extension(filename)
    IN IF ext \in {<<"h","t","m","l">>, <<"h","t","m">>} THEN "text/html"
       ELSE IF ext = <<"c","s","s">> THEN "text/css"
       ELSE IF ext = <<"j","s">> THEN "application/javascript"
       ELSE IF ext = <<"j","s","o","n">> THEN "application/json"
       ELSE IF ext = <<"x","m","l">> THEN "application/xml"
       ELSE IF ext = <<"t","x","t">> THEN "text/plain"
       ELSE IF ext = <<"p","d","f">> THEN "application/pdf"
       ELSE IF ext \in {<<"j","p","g">>, <<"j","p","e","g">>} THEN "image/jpeg"
       ELSE IF ext = <<"p","n","g">> THEN "image/png"
       ELSE IF ext = <<"g","i","f">> THEN "image/gif"
       ELSE IF ext = <<"s","v","g">> THEN "image/svg+xml"
       ELSE IF ext = <<"i","c","o">> THEN "image/x-icon"
       ELSE IF ext = <<"z","i","p">> THEN "application/zip"
       ELSE IF ext = <<"t","a","r">> THEN "application/x-tar"
       ELSE IF ext = <<"g","z">> THEN "application/gzip"
       ELSE IF ext = <<"m","p","4">> THEN "video/mp4"
       ELSE IF ext = <<"m","p","3">> THEN "audio/mpeg"
       ELSE IF ext = <<"w","a","v">> THEN "audio/wav"
       ELSE OctetStream

\* ------------------------------------------------------------- models.rs
BucketNew(name, now) == [name |-> name, created_at |-> now, metadata |-> EmptyMap]

ObjectNew(key, bucket_name, size, content_type, etag, user_metadata, now) ==
    [key |-> key, bucket_name |-> bucket_name, size |-> size,
     content_type |-> content_type, etag |-> etag, created_at |-> now,
     last_modified |-> now, user_metadata |-> user_metadata]

\* impl From<Object> for ObjectMetadata
MetadataFromObject(obj) ==
    [key |-> obj.key, bucket_name |-> obj.bucket_name, size |-> obj.size,
     content_type |-> obj.content_type, etag |-> obj.etag,
     created_at |-> obj.created_at, last_modified |-> obj.last_modified,
     user_metadata |-> obj.user_metadata, version_id |-> None,
     is_delete_marker |-> FALSE, reference_count |-> 0,
     data_holder_id |-> None]

\* ------------------------------------------------- StorageService: disk
generate_object_id(bucket_name, key) == sha256_hash(bucket_name \o <<":">> \o key)

\* A variant that keeps every sidecar under the directory of one bucket.
get_object_metadata_path_flat(bucket_name, object_id) == <<B1, object_id>>

\* get_object_data_path / get_object_metadata_path: one file per (bucket, id).
get_object_data_path(bucket_name, object_id) == <<bucket_name, object_id>>
get_object_metadata_path(bucket_name, object_id) == <<bucket_name, object_id>>

save_bucket_metadata(S, bucket) ==
    [S EXCEPT !.bucket_dirs = @ \cup {bucket.name},
              !.bucket_json = MapPut(@, bucket.name, bucket)]

delete_bucket_directory(S, bucket_name) ==
    [S EXCEPT !.bucket_dirs = @ \ {bucket_name},
              !.bucket_json = MapDel(@, bucket_name),
              !.sidecars = [p \in {q \in DOMAIN @ : q[1] # bucket_name} |-> @[p]],
              !.datafiles = [p \in {q \in DOMAIN @ : q[1] # bucket_name} |-> @[p]]]

save_object_metadata(S, bucket_name, object_id, metadata) ==
    [S EXCEPT !.bucket_dirs = @ \cup {bucket_name},
              !.sidecars = MapPut(@, get_object_metadata_path(bucket_name, object_id), metadata)]

load_object_metadata(S, bucket_name, object_id) ==
    MapGet(S.sidecars, get_object_metadata_path(bucket_name, object_id))

delete_object_metadata(S, bucket_name, object_id) ==
    [S EXCEPT !.sidecars = MapDel(@, get_object_metadata_path(bucket_name, object_id))]

\* A variant that creates the directory and writes no bytes.
write_object_data_none(S, bucket_name, object_id, data) ==
    [S EXCEPT !.bucket_dirs = @ \cup {bucket_name}]

\* fs::write(&object_path, data), parent directories created first
write_object_data(S, bucket_name, object_id, data) ==
    [S EXCEPT !.bucket_dirs = @ \cup {bucket_name},
              !.datafiles = MapPut(@, get_object_data_path(bucket_name, object_id), data)]

\* if object_path.exists() { fs::remove_file(object_path) }
remove_object_data(S, bucket_name, object_id) ==
    [S EXCEPT !.datafiles = MapDel(@, get_object_data_path(bucket_name, object_id))]

\* ---------------------------------------------- StorageService: indexes
find_object_id_by_key(S, bucket_name, key) ==
    IF bucket_name \in DOMAIN S.object_index
    THEN MapGet(S.object_index[bucket_name], key)
    ELSE None

add_object_to_index(S, bucket_name, key, object_id) ==
    LET bucket_index == IF bucket_name \in DOMAIN S.object_index
                        THEN S.object_index[bucket_name] ELSE EmptyMap
    IN [S EXCEPT !.object_index = MapPut(@, bucket_name, MapPut(bucket_index, key, object_id))]

\* remove_object_from_index that leaves the entry in place
remove_object_from_index_none(S, bucket_name, key) == S

remove_object_from_index(S, bucket_name, key) ==
    IF bucket_name \in DOMAIN S.object_index
    THEN LET bucket_index == MapDel(S.object_index[bucket_name], key)
         IN IF DOMAIN bucket_index = {}
            THEN [S EXCEPT !.object_index = MapDel(@, bucket_name)]
            ELSE [S EXCEPT !.object_index = MapPut(@, bucket_name, bucket_index)]
    ELSE S

get_bucket_object_count(S, bucket_name) ==
    IF bucket_name \in DOMAIN S.object_index
    THEN Cardinality(DOMAIN S.object_index[bucket_name])
    ELSE 0

\* A variant that reports every bucket as empty.
is_bucket_empty_always(S, bucket_name) == TRUE

is_bucket_empty(S, bucket_name) == get_bucket_object_count(S, bucket_name) = 0

add_etag_to_index(S, bucket_name, etag, object_id) ==
    LET bucket_etag_index == IF bucket_name \in DOMAIN S.etag_index
                             THEN S.etag_index[bucket_name] ELSE EmptyMap
        object_ids == IF etag \in DOMAIN bucket_etag_index
                      THEN bucket_etag_index[etag] ELSE <<>>
    IN [S EXCEPT !.etag_index =
            MapPut(@, bucket_name, MapPut(bucket_etag_index, etag, Append(object_ids, object_id)))]

\* Vec::retain(|id| id != object_id)
Retain(ids, object_id) == SelectSeq(ids, LAMBDA id : id # object_id)

remove_etag_from_index(S, bucket_name, etag, object_id) ==
    IF bucket_name \in DOMAIN S.etag_index
    THEN LET bei == S.etag_index[bucket_name]
             bei2 == IF etag \in DOMAIN bei
                     THEN LET object_ids == Retain(bei[etag], object_id)
                          IN IF object_ids = <<>> THEN MapDel(bei, etag)
                             ELSE MapPut(bei, etag, object_ids)
                     ELSE bei
         IN IF DOMAIN bei2 = {}
            THEN [S EXCEPT !.etag_index = MapDel(@, bucket_name)]
            ELSE [S EXCEPT !.etag_index = MapPut(@, bucket_name, bei2)]
    ELSE S

find_objects_by_etag(S, bucket_name, etag) ==
    IF bucket_name \in DOMAIN S.etag_index /\ etag \in DOMAIN S.etag_index[bucket_name]
    THEN S.etag_index[bucket_name][etag]
    ELSE <<>>

is_etag_exists(S, bucket_name, etag) == find_objects_by_etag(S, bucket_name, etag) # <<>>

\* ------------------------------------- StorageService: index rebuild
\* The directories read_dir(data_dir) yields, system directories skipped.
ScannedBuckets(S) == {b \in S.bucket_dirs : ~(Len(b) > 0 /\ b[1] = ".")}

\* The sidecars under <bucket>/.sevino.meta/objects/.
SidecarsOf(S, bucket_name) == {p \in DOMAIN S.sidecars : p[1] = bucket_name}

\* build_object_index: per bucket, metadata.key -> generate_object_id(bucket, key);
\* a bucket without sidecars gets no entry.
build_object_index(S) ==
    LET bucket_index(b) ==
            [k \in {S.sidecars[p].key : p \in SidecarsOf(S, b)} |->
                generate_object_id(b, k)]
    IN [b \in {c \in ScannedBuckets(S) : SidecarsOf(S, c) # {}} |-> bucket_index(b)]

\* A Vec<String> up to the order of its elements: id -> number of occurrences.
BagOf(ids) ==
    [x \in {ids[i] : i \in 1..Len(ids)} |->
        Cardinality({i \in 1..Len(ids) : ids[i] = x})]

\* build_etag_index: per bucket, metadata.etag -> the ids pushed for the
\* sidecars with that etag.  read_dir fixes no order, so each list is given
\* up to order.
build_etag_index(S) ==
    LET pushed(b, e) == {p \in SidecarsOf(S, b) : S.sidecars[p].etag = e}
        ids(b, e) == {generate_object_id(b, S.sidecars[p].key) : p \in pushed(b, e)}
        bucket_etag_index(b) ==
            [e \in {S.sidecars[p].etag : p \in SidecarsOf(S, b)} |->
                [id \in ids(b, e) |->
                    Cardinality({p \in pushed(b, e) :
                        generate_object_id(b, S.sidecars[p].key) = id})]]
    IN [b \in {c \in ScannedBuckets(S) : SidecarsOf(S, c) # {}} |-> bucket_etag_index(b)]

\* ------------------------------------------- StorageService: listing
\* The first hex digits of the SHA-256 object ids of the listed keys
\* (sha256 of "p:<key>", printed with {:x}).
hex_digest(object_id) ==
    CASE object_id = generate_object_id(B1, KPhotoA) -> <<"3", "0", "4", "9">>
      [] object_id = generate_object_id(B1, KPhotoB) -> <<"c", "c", "b", "d">>
      [] object_id = generate_object_id(B1, KPhotoC) -> <<"3", "e", "a", "0">>
      [] object_id = generate_object_id(B1, KDocX) -> <<"4", "d", "c", "3">>
      [] object_id = generate_object_id(B1, KA) -> <<"3", "5", "b", "d">>
      [] object_id = generate_object_id(B1, KB) -> <<"7", "a", "6", "9">>

\* format!("{}.json", object_id)
file_name(object_id) == hex_digest(object_id) \o <<".", "j", "s", "o", "n">>

\* The byte value of a character of a file name.
ByteOf(c) ==
    CASE c = "." -> 46
      [] c \in {"0", "1", "2", "3", "4", "5", "6", "7", "8", "9"} ->
            48 + (CHOOSE d \in 0..9 : <<"0", "1", "2", "3", "4", "5", "6", "7", "8", "9">>[d + 1] = c)
      [] c \in {"a", "b", "c", "d", "e", "f"} ->
            97 + (CHOOSE d \in 0..5 : <<"a", "b", "c", "d", "e", "f">>[d + 1] = c)
      [] c = "j" -> 106
      [] c = "n" -> 110
      [] c = "o" -> 111
      [] c = "s" -> 115

\* OsString::cmp: byte-wise lexicographic order, a < b.
RECURSIVE os_str_less(_, _)
os_str_less(a, b) ==
    IF b = <<>> THEN FALSE
    ELSE IF a = <<>> THEN TRUE
    ELSE IF ByteOf(Head(a)) # ByteOf(Head(b)) THEN ByteOf(Head(a)) < ByteOf(Head(b))
    ELSE os_str_less(Tail(a), Tail(b))

\* entries.sort_by(|a, b| a.file_name().cmp(&b.file_name()))
RECURSIVE sort_by_file_name(_)
sort_by_file_name(object_ids) ==
    IF object_ids = {} THEN <<>>
    ELSE LET least == CHOOSE x \in object_ids :
                    \A y \in object_ids \ {x} : os_str_less(file_name(x), file_name(y))
         IN <<least>> \o sort_by_file_name(object_ids \ {least})

\* A variant that starts collecting at once, whatever the marker.
started_initially_always(marker) == TRUE

\* let mut started = marker.is_none();
started_initially(marker) == marker = None

\* The loop over the sorted entries: the sidecars pushed to objects.
RECURSIVE list_entries(_, _, _, _, _, _, _, _)
list_entries(S, bucket_name, entries, i, started, objects, max_keys, marker) ==
    IF i > Len(entries) THEN objects
    ELSE IF IsSome(max_keys) /\ Len(objects) >= Unwrap(max_keys) THEN objects
    ELSE IF ~started
    THEN list_entries(S, bucket_name, entries, i + 1,
                      file_name(entries[i]) = Unwrap(marker), objects, max_keys, marker)
    ELSE list_entries(S, bucket_name, entries, i + 1, started,
                      Append(objects, S.sidecars[<<bucket_name, entries[i]>>]),
                      max_keys, marker)

\* max_keys = None stands for usize::MAX: the count never reaches it.
list_object_metadata_with_pagination(S, bucket_name, max_keys, marker) ==
    LET entries == sort_by_file_name({p[2] : p \in SidecarsOf(S, bucket_name)})
    IN list_entries(S, bucket_name, entries, 1, started_initially(marker), <<>>,
                    max_keys, marker)

\* ---------------------------------------------------------- BucketService
Reply(status, S) == [status |-> status, st |-> S]

create_bucket(S, name, now) ==
    IF validate_bucket_name(name) # "ok" THEN Reply("invalid_name", S)
    ELSE IF name \in DOMAIN S.buckets THEN Reply("already_exists", S)
    ELSE LET bucket == BucketNew(name, now)
             S1 == save_bucket_metadata(S, bucket)
         IN Reply("ok", [S1 EXCEPT !.buckets = MapPut(@, name, bucket)])

delete_bucket(S, name) ==
    IF name \notin DOMAIN S.buckets THEN Reply("bucket_not_found", S)
    ELSE IF ~is_bucket_empty(S, name) THEN Reply("not_empty", S)
    ELSE LET S1 == delete_bucket_directory(S, name)
         IN Reply("ok", [S1 EXCEPT !.buckets = MapDel(@, name)])

\* ---------------------------------------------------- ObjectService: put
\* A put's reply: status, the branch of the code that produced it, the
\* returned Object (when ok), the keys an error message names, the new state.
PutReply(status, branch, obj, keys, S) ==
    [status |-> status, branch |-> branch, obj |-> obj, keys |-> keys, st |-> S]

put_object_with_versioning(S, bucket_name, key, data, content_type, user_metadata, now) ==
    IF validate_object_key(key) # "ok"
    THEN PutReply("invalid_key", "validate", None, <<>>, S)
    ELSE IF bucket_name \notin DOMAIN S.buckets
    THEN PutReply("bucket_not_found", "registry", None, <<>>, S)
    ELSE
    LET etag == generate_etag(data)
        mime_type == IF content_type = OctetStream THEN get_mime_type(key)
                     ELSE content_type
        existing_objects == find_objects_by_etag(S, bucket_name, etag)
        first_metadata == IF existing_objects # <<>>
                          THEN load_object_metadata(S, bucket_name, existing_objects[1])
                          ELSE None
        existing_object_id == find_object_id_by_key(S, bucket_name, key)
        existing_metadata == IF IsSome(existing_object_id)
                             THEN load_object_metadata(S, bucket_name, Unwrap(existing_object_id))
                             ELSE None
    IN  IF is_etag_exists(S, bucket_name, etag) /\ IsSome(first_metadata)
        THEN \* cross-key ETag check: "Content already exists with key ..."
             PutReply("content_exists", "etag_check", None,
                      <<Unwrap(first_metadata).key>>, S)
        ELSE IF IsSome(existing_metadata) /\ Unwrap(existing_metadata).etag = etag
        THEN \* same key, same content: refresh the sidecar only
             LET updated_metadata ==
                     [Unwrap(existing_metadata) EXCEPT !.last_modified = now,
                                                      !.user_metadata = user_metadata]
                 S1 == save_object_metadata(S, bucket_name, Unwrap(existing_object_id),
                                            updated_metadata)
             IN PutReply("ok", "idempotent",
                         Some(ObjectNew(key, bucket_name, updated_metadata.size,
                                        updated_metadata.content_type, updated_metadata.etag,
                                        updated_metadata.user_metadata, now)),
                         <<>>, S1)
        ELSE LET object == ObjectNew(key, bucket_name, Len(data), mime_type, etag,
                                     user_metadata, now)
                 object_id == generate_object_id(bucket_name, key)
                 S1 == write_object_data(S, bucket_name, object_id, data)
                 S2 == save_object_metadata(S1, bucket_name, object_id,
                                            MetadataFromObject(object))
                 S3 == add_object_to_index(S2, bucket_name, key, object_id)
                 S4 == add_etag_to_index(S3, bucket_name, etag, object_id)
             IN PutReply("ok", "written", Some(object), <<>>, S4)

put_object(S, bucket_name, key, data, content_type, user_metadata, now) ==
    put_object_with_versioning(S, bucket_name, key, data, content_type, user_metadata, now)

\* A variant that inspects only the first id listed under the etag.
find_duplicate_content_keys_first(S, bucket_name, etag, exclude_key) ==
    LET object_ids == find_objects_by_etag(S, bucket_name, etag)
        first == IF object_ids = <<>> THEN <<>> ELSE <<Head(object_ids)>>
        kept == SelectSeq(first,
                    LAMBDA id : /\ IsSome(load_object_metadata(S, bucket_name, id))
                                /\ Unwrap(load_object_metadata(S, bucket_name, id)).key # exclude_key)
    IN [i \in 1..Len(kept) |-> Unwrap(load_object_metadata(S, bucket_name, kept[i])).key]

find_duplicate_content_keys(S, bucket_name, etag, exclude_key) ==
    LET object_ids == find_objects_by_etag(S, bucket_name, etag)
        kept == SelectSeq(object_ids,
                    LAMBDA id : /\ IsSome(load_object_metadata(S, bucket_name, id))
                                /\ Unwrap(load_object_metadata(S, bucket_name, id)).key # exclude_key)
    IN [i \in 1..Len(kept) |-> Unwrap(load_object_metadata(S, bucket_name, kept[i])).key]

\* The reference count a candidate is ranked by (its holder's, for a reference).
current_ref_count(S, bucket_name, metadata) ==
    IF metadata.data_holder_id = None THEN metadata.reference_count
    ELSE LET holder_metadata ==
                 load_object_metadata(S, bucket_name, Unwrap(metadata.data_holder_id))
         IN IF IsSome(holder_metadata) THEN Unwrap(holder_metadata).reference_count ELSE 0

\* The loop over duplicate_keys: <<best_holder_id, max_reference_count>>.
RECURSIVE select_best_holder(_, _, _, _, _)
select_best_holder(S, bucket_name, duplicate_keys, i, acc) ==
    IF i > Len(duplicate_keys) THEN acc
    ELSE LET object_id == find_object_id_by_key(S, bucket_name, duplicate_keys[i])
             metadata == IF IsSome(object_id)
                         THEN load_object_metadata(S, bucket_name, Unwrap(object_id))
                         ELSE None
             next == IF IsSome(metadata)
                        /\ current_ref_count(S, bucket_name, Unwrap(metadata)) > acc[2]
                     THEN <<object_id, current_ref_count(S, bucket_name, Unwrap(metadata))>>
                     ELSE acc
         IN select_best_holder(S, bucket_name, duplicate_keys, i + 1, next)

\* A variant that persists the holder without counting the new reference.
increment_reference_count_none(holder_metadata) == holder_metadata

\* holder_metadata.reference_count += 1
increment_reference_count(holder_metadata) ==
    [holder_metadata EXCEPT !.reference_count = @ + 1]

\* The Reference branch once duplicate_keys is known to be non-empty.
put_reference(S, bucket_name, key, data, content_type, user_metadata, duplicate_keys, now) ==
    LET etag == generate_etag(data)
        best_holder_id == select_best_holder(S, bucket_name, duplicate_keys, 1, <<None, 0>>)[1]
        data_holder == IF IsSome(best_holder_id) THEN best_holder_id
                       ELSE find_object_id_by_key(S, bucket_name, duplicate_keys[1])
    IN  IF data_holder = None
        THEN PutReply("duplicate_not_found", "reference", None, <<>>, S)
        ELSE
        LET data_holder_id == Unwrap(data_holder)
            holder_metadata == load_object_metadata(S, bucket_name, data_holder_id)
            S1 == IF IsSome(holder_metadata)
                  THEN save_object_metadata(S, bucket_name, data_holder_id,
                           increment_reference_count(Unwrap(holder_metadata)))
                  ELSE S
            new_object == ObjectNew(key, bucket_name, Len(data), content_type, etag,
                                    user_metadata, now)
            new_object_id == generate_object_id(bucket_name, key)
            new_metadata == [MetadataFromObject(new_object) EXCEPT
                                !.data_holder_id = Some(data_holder_id),
                                !.reference_count = 0]
            S2 == save_object_metadata(S1, bucket_name, new_object_id, new_metadata)
            S3 == add_object_to_index(S2, bucket_name, key, new_object_id)
            S4 == add_etag_to_index(S3, bucket_name, etag, new_object_id)
        IN PutReply("ok", "reference", Some(new_object), <<>>, S4)

put_object_with_deduplication(S, bucket_name, key, data, content_type, user_metadata, deduplication_mode, now) ==
    LET etag == generate_etag(data)
        duplicate_keys == find_duplicate_content_keys(S, bucket_name, etag, key)
    IN  IF deduplication_mode = "Reject"
        THEN IF duplicate_keys # <<>>
             THEN PutReply("duplicate_content", "reject", None, duplicate_keys, S)
             ELSE put_object(S, bucket_name, key, data, content_type, user_metadata, now)
        ELSE IF deduplication_mode = "Allow"
        THEN put_object(S, bucket_name, key, data, content_type, user_metadata, now)
        ELSE IF duplicate_keys # <<>>
             THEN put_reference(S, bucket_name, key, data, content_type, user_metadata,
                                duplicate_keys, now)
             ELSE put_object(S, bucket_name, key, data, content_type, user_metadata, now)

\* ------------------------------------------ ObjectService: conditional put
\* A variant that reports a duplicate whenever the key has a sidecar.
is_duplicate_content_any(S, bucket_name, key, etag) ==
    LET existing_object_id == find_object_id_by_key(S, bucket_name, key)
    IN /\ IsSome(existing_object_id)
       /\ IsSome(load_object_metadata(S, bucket_name, Unwrap(existing_object_id)))

is_duplicate_content(S, bucket_name, key, etag) ==
    LET existing_object_id == find_object_id_by_key(S, bucket_name, key)
        existing_metadata == IF IsSome(existing_object_id)
                             THEN load_object_metadata(S, bucket_name, Unwrap(existing_object_id))
                             ELSE None
    IN IsSome(existing_metadata) /\ Unwrap(existing_metadata).etag = etag

put_object_if_not_exists(S, bucket_name, key, data, content_type, user_metadata, now) ==
    LET etag == generate_etag(data)
    IN IF is_duplicate_content(S, bucket_name, key, etag)
       THEN PutReply("already_exists", "if_not_exists", None, <<>>, S)
       ELSE put_object(S, bucket_name, key, data, content_type, user_metadata, now)

\* A variant of the precondition that fails when the etags differ.
etag_precondition_fails_on_mismatch(existing_metadata, expected_etag) ==
    existing_metadata.etag # expected_etag

\* if existing_metadata.etag == expected_etag { return Err(..) }
etag_precondition_fails(existing_metadata, expected_etag) ==
    existing_metadata.etag = expected_etag

put_object_if_etag_mismatch(S, bucket_name, key, data, content_type, user_metadata, expected_etag, now) ==
    LET existing_object_id == find_object_id_by_key(S, bucket_name, key)
        existing_metadata == IF IsSome(existing_object_id)
                             THEN load_object_metadata(S, bucket_name, Unwrap(existing_object_id))
                             ELSE None
    IN IF IsSome(existing_metadata)
          /\ etag_precondition_fails(Unwrap(existing_metadata), expected_etag)
       THEN PutReply("precondition_failed", "if_etag_mismatch", None, <<>>, S)
       ELSE put_object(S, bucket_name, key, data, content_type, user_metadata, now)

\* -------------------------------------------------- ObjectService: list
\* str::starts_with
starts_with(s, prefix) ==
    Len(prefix) <= Len(s) /\ SubSeq(s, 1, Len(prefix)) = prefix

\* A variant that finds the last occurrence (str::rfind).
str_rfind(s, pat) ==
    LET hits == {pos \in 0..(Len(s) - Len(pat)) :
                     SubSeq(s, pos + 1, pos + Len(pat)) = pat}
    IN IF hits = {} THEN None
       ELSE Some(CHOOSE pos \in hits : \A other \in hits : pos >= other)

\* str::find: the byte offset of the first occurrence of pat in s, if any.
str_find(s, pat) ==
    LET hits == {pos \in 0..(Len(s) - Len(pat)) :
                     SubSeq(s, pos + 1, pos + Len(pat)) = pat}
    IN IF hits = {} THEN None
       ELSE Some(CHOOSE pos \in hits : \A other \in hits : pos <= other)

DirectoryType == "application/x-directory"

\* The loop that replaces keys holding the delimiter by their common prefix.
RECURSIVE apply_delimiter(_, _, _, _, _, _, _)
apply_delimiter(objects, i, delimiter, bucket_name, seen_prefixes, filtered_objects, now) ==
    IF i > Len(objects) THEN filtered_objects
    ELSE LET obj == objects[i]
             pos == str_find(obj.key, delimiter)
         IN IF IsSome(pos)
            THEN LET prefix == SubSeq(obj.key, 1, Unwrap(pos) + Len(delimiter))
                     virtual_obj == ObjectNew(prefix, bucket_name, 0, DirectoryType,
                                              <<>>, EmptyMap, now)
                 IN IF prefix \notin seen_prefixes
                    THEN apply_delimiter(objects, i + 1, delimiter, bucket_name,
                                         seen_prefixes \cup {prefix},
                                         Append(filtered_objects, virtual_obj), now)
                    ELSE apply_delimiter(objects, i + 1, delimiter, bucket_name,
                                         seen_prefixes, filtered_objects, now)
            ELSE apply_delimiter(objects, i + 1, delimiter, bucket_name,
                                 seen_prefixes, Append(filtered_objects, obj), now)

ListReply(status, objects) == [status |-> status, objects |-> objects]

list_objects(S, bucket_name, prefix, delimiter, max_keys, marker, now) ==
    IF bucket_name \notin DOMAIN S.buckets THEN ListReply("bucket_not_found", <<>>)
    ELSE
    LET metadata_objects ==
            list_object_metadata_with_pagination(S, bucket_name, max_keys, marker)
        objects == [i \in 1..Len(metadata_objects) |->
                        LET obj == metadata_objects[i]
                        IN ObjectNew(obj.key, obj.bucket_name, obj.size, obj.content_type,
                                     obj.etag, obj.user_metadata, now)]
        retained == IF IsSome(prefix)
                    THEN SelectSeq(objects, LAMBDA obj : starts_with(obj.key, Unwrap(prefix)))
                    ELSE objects
    IN IF IsSome(delimiter)
       THEN ListReply("ok", apply_delimiter(retained, 1, Unwrap(delimiter), bucket_name,
                                            {}, <<>>, now))
       ELSE ListReply("ok", retained)

\* ---------------------------------------------------- ObjectService: get
GetReply(status, data, metadata) == [status |-> status, data |-> data, metadata |-> metadata]

\* The object whose data path is read: the holder's for a reference.
\* A variant that always reads the requesting object's own data path.
data_object_id_of_self(object_id, metadata) == object_id

data_object_id_of(object_id, metadata) ==
    IF IsSome(metadata.data_holder_id) THEN Unwrap(metadata.data_holder_id)
    ELSE object_id

get_object(S, bucket_name, key) ==
    IF bucket_name \notin DOMAIN S.buckets THEN GetReply("bucket_not_found", None, None)
    ELSE
    LET object_id == find_object_id_by_key(S, bucket_name, key)
        metadata == IF IsSome(object_id)
                    THEN load_object_metadata(S, bucket_name, Unwrap(object_id))
                    ELSE None
    IN  IF object_id = None THEN GetReply("not_found", None, None)
        ELSE IF metadata = None THEN GetReply("metadata_not_found", None, None)
        ELSE
        LET holder == Unwrap(metadata).data_holder_id
            data_object_id == data_object_id_of(Unwrap(object_id), Unwrap(metadata))
            object_path == get_object_data_path(bucket_name, data_object_id)
        IN  IF IsSome(holder) /\ load_object_metadata(S, bucket_name, Unwrap(holder)) = None
            THEN GetReply("holder_not_found", None, None)
            ELSE IF object_path \notin DOMAIN S.datafiles
            THEN GetReply("data_not_found", None, None)
            ELSE GetReply("ok", Some(S.datafiles[object_path]), metadata)

\* ------------------------------------------------- ObjectService: delete
DeleteReply(status, branch, count, S) ==
    [status |-> status, branch |-> branch, count |-> count, st |-> S]

\* if metadata.reference_count > 0 { return Err(...) }
\* A variant that tolerates one outstanding reference.
has_references_many(metadata) == metadata.reference_count > 1

has_references(metadata) == metadata.reference_count > 0

\* A variant that persists the holder without releasing the reference.
decrement_reference_count_none(holder_metadata) == holder_metadata

\* holder_metadata.reference_count -= 1
decrement_reference_count(holder_metadata) ==
    [holder_metadata EXCEPT !.reference_count = @ - 1]

delete_object(S, bucket_name, key) ==
    IF bucket_name \notin DOMAIN S.buckets
    THEN DeleteReply("bucket_not_found", "registry", 0, S)
    ELSE
    LET found == find_object_id_by_key(S, bucket_name, key)
        loaded == IF IsSome(found)
                  THEN load_object_metadata(S, bucket_name, Unwrap(found))
                  ELSE None
    IN  IF found = None THEN DeleteReply("not_found", "index", 0, S)
        ELSE IF loaded = None THEN DeleteReply("metadata_not_found", "sidecar", 0, S)
        ELSE
        LET object_id == Unwrap(found)
            metadata == Unwrap(loaded)
        IN  IF IsSome(metadata.data_holder_id)
            THEN \* a reference: drop it, then decrement the holder
                 LET data_holder_id == Unwrap(metadata.data_holder_id)
                     S1 == delete_object_metadata(S, bucket_name, object_id)
                     S2 == remove_object_from_index(S1, bucket_name, key)
                     S3 == remove_etag_from_index(S2, bucket_name, metadata.etag, object_id)
                     holder_metadata == load_object_metadata(S3, bucket_name, data_holder_id)
                     S4 == IF IsSome(holder_metadata)
                              /\ Unwrap(holder_metadata).reference_count > 0
                           THEN save_object_metadata(S3, bucket_name, data_holder_id,
                                    decrement_reference_count(Unwrap(holder_metadata)))
                           ELSE S3
                 IN DeleteReply("ok", "reference", 0, S4)
            ELSE IF has_references(metadata)
            THEN DeleteReply("has_references", "holder", metadata.reference_count, S)
            ELSE LET S1 == remove_object_data(S, bucket_name, object_id)
                     S2 == delete_object_metadata(S1, bucket_name, object_id)
                     S3 == remove_object_from_index(S2, bucket_name, key)
                     S4 == remove_etag_from_index(S3, bucket_name, metadata.etag, object_id)
                 IN DeleteReply("ok", "holder", 0, S4)

\* ---------------------------------------------------------------- actions
Install(S) ==
    /\ buckets' = S.buckets
    /\ object_index' = S.object_index
    /\ etag_index' = S.etag_index
    /\ bucket_dirs' = S.bucket_dirs
    /\ bucket_json' = S.bucket_json
    /\ sidecars' = S.sidecars
    /\ datafiles' = S.datafiles

\* The limits on the counters a put can grow without limit.
WithinBounds(S, maxRefs, maxIds) ==
    /\ \A p \in DOMAIN S.sidecars : S.sidecars[p].reference_count <= maxRefs
    /\ \A b \in DOMAIN S.etag_index : \A e \in DOMAIN S.etag_index[b] :
           Len(S.etag_index[b][e]) <= maxIds

\* An empty data directory, just loaded.
EmptyStore ==
    /\ buckets = EmptyMap
    /\ object_index = EmptyMap
    /\ etag_index = EmptyMap
    /\ bucket_dirs = {}
    /\ bucket_json = EmptyMap
    /\ sidecars = EmptyMap
    /\ datafiles = EmptyMap
    /\ clock = 0
    /\ last = [op |-> "init", bucket |-> <<>>, key |-> <<>>, status |-> "ok",
               branch |-> "init"]

\* A lock nobody holds.
NoTask == 0
FreeLock == [writer |-> NoTask, readers |-> {}]
LockNames == {"buckets"}

\* One request at a time: nothing in flight, every lock free.
Init ==
    /\ EmptyStore
    /\ tasks = <<>>
    /\ locks = [l \in LockNames |-> FreeLock]

\* Time passes between requests.
Tick ==
    /\ clock < MaxClock
    /\ clock' = clock + 1
    /\ UNCHANGED <<buckets, object_index, etag_index, bucket_dirs, bucket_json,
                   sidecars, datafiles, last, tasks, locks>>

\* POST /api/buckets
CreateBucket(name) ==
    \E r \in {create_bucket(St, name, clock)} :
       /\ Install(r.st)
       /\ last' = [op |-> "create_bucket", bucket |-> name, key |-> <<>>,
                   status |-> r.status, branch |-> "bucket"]
       /\ UNCHANGED <<clock, tasks, locks>>

\* DELETE /api/buckets/{name}
DeleteBucket(name) ==
    \E r \in {delete_bucket(St, name)} :
       /\ Install(r.st)
       /\ last' = [op |-> "delete_bucket", bucket |-> name, key |-> <<>>,
                   status |-> r.status, branch |-> "bucket"]
       /\ UNCHANGED <<clock, tasks, locks>>

\* PUT /api/buckets/{b}/objects/{k}?deduplication_mode=... (default Allow)
PutObject(bucket_name, key, data, content_type, user_metadata, mode, maxRefs, maxIds) ==
    \E r \in {put_object_with_deduplication(St, bucket_name, key, data, content_type,
                                            user_metadata, mode, clock)} :
       /\ WithinBounds(r.st, maxRefs, maxIds)
       /\ Install(r.st)
       /\ last' = [op |-> "put", bucket |-> bucket_name, key |-> key, mode |-> mode,
                   status |-> r.status, branch |-> r.branch, obj |-> r.obj,
                   before |-> get_bucket_object_count(St, bucket_name)]
       /\ UNCHANGED <<clock, tasks, locks>>

\* GET /api/buckets/{b}/objects/{k}
GetObject(bucket_name, key) ==
    \E r \in {get_object(St, bucket_name, key)} :
       /\ last' = [op |-> "get", bucket |-> bucket_name, key |-> key,
                   status |-> r.status, branch |-> "get", data |-> r.data,
                   metadata |-> r.metadata]
       /\ UNCHANGED <<buckets, object_index, etag_index, bucket_dirs, bucket_json,
                      sidecars, datafiles, clock, tasks, locks>>

\* DELETE /api/buckets/{b}/objects/{k}
DeleteObject(bucket_name, key) ==
    \E r \in {delete_object(St, bucket_name, key)} :
       /\ Install(r.st)
       /\ last' = [op |-> "delete", bucket |-> bucket_name, key |-> key,
                   status |-> r.status, branch |-> r.branch, count |-> r.count]
       /\ UNCHANGED <<clock, tasks, locks>>

\* The requests, over the given names, (bucket, key) pairs, bodies, user
\* metadata and deduplication modes.
Requests(names, targets, datas, ums, modes, maxRefs, maxIds) ==
    \/ \E name \in names : CreateBucket(name)
    \/ \E name \in names : DeleteBucket(name)
    \/ \E t \in targets, data \in datas, ct \in ContentTypes, um \in ums, mode \in modes :
          PutObject(t[1], t[2], data, ct, um, mode, maxRefs, maxIds)
    \/ \E t \in targets : GetObject(t[1], t[2])
    \/ \E t \in targets : DeleteObject(t[1], t[2])

\* One bucket, two keys, two bodies, every deduplication mode.
Next == Requests(CoreNames, CoreTargets, Datas, {UM0}, Modes, MaxRefCount, MaxEtagIds)
Spec == Init /\ [][Next]_vars

\* The same requests with room for a third etag_index entry per ETag.
NextDeep == Requests(CoreNames, CoreTargets, Datas, {UM0}, Modes,
                     DeepMaxRefCount, DeepMaxEtagIds)
SpecDeep == Init /\ [][NextDeep]_vars

\* The same requests with the clock running and two user-metadata maps.
NextTimed == Tick \/ Requests(CoreNames, CoreTargets, Datas, UserMetas, Modes,
                              MaxRefCount, MaxEtagIds)
SpecTimed == Init /\ [][NextTimed]_vars

\* The requests with an invalid key and a bucket that is never created.
EdgeTargets == {<<B1, KB>>, <<B1, KDotDot>>, <<B2, KA>>}
NextEdge == Requests(CoreNames, EdgeTargets, Datas, {UM0}, Modes,
                     MaxRefCount, MaxEtagIds)
SpecEdge == Init /\ [][NextEdge]_vars

\* StorageService::rebuild_object_index, with no request in flight
RebuildObjectIndex ==
    /\ object_index' = build_object_index(St)
    /\ last' = [op |-> "rebuild_object_index", bucket |-> <<>>, key |-> <<>>,
                status |-> "ok", branch |-> "rebuild"]
    /\ UNCHANGED <<buckets, etag_index, bucket_dirs, bucket_json, sidecars, datafiles,
                   clock, tasks, locks>>

NextRebuild == Next \/ RebuildObjectIndex
SpecRebuild == Init /\ [][NextRebuild]_vars

\* Two buckets that hold the same bytes, and whole-bucket listings.
BothNames == {B1, B2}
BothTargets == {<<B1, KA>>, <<B1, KB>>, <<B2, KB>>}
ListBucket(bucket_name) ==
    /\ \E r \in {list_objects(St, bucket_name, None, None, None, None, clock)} :
          last' = [op |-> "list_objects", bucket |-> bucket_name, key |-> <<>>,
                   status |-> r.status, branch |-> "list", objects |-> r.objects]
    /\ UNCHANGED <<StoreVars, clock, tasks, locks>>
NextBoth ==
    \/ Requests(BothNames, BothTargets, {DX}, {UM0}, Modes, MaxRefCount, MaxEtagIds)
    \/ \E name \in BothNames : ListBucket(name)
SpecBoth == Init /\ [][NextBoth]_vars

\* ObjectService::put_object_if_not_exists
PutObjectIfNotExists(bucket_name, key, data, content_type, user_metadata, maxRefs, maxIds) ==
    \E r \in {put_object_if_not_exists(St, bucket_name, key, data, content_type,
                                       user_metadata, clock)} :
       /\ WithinBounds(r.st, maxRefs, maxIds)
       /\ Install(r.st)
       /\ last' = [op |-> "put_if_not_exists", bucket |-> bucket_name, key |-> key,
                   etag |-> generate_etag(data),
                   status |-> r.status, branch |-> r.branch, obj |-> r.obj]
       /\ UNCHANGED <<clock, tasks, locks>>

\* ObjectService::put_object_if_etag_mismatch
PutObjectIfEtagMismatch(bucket_name, key, data, content_type, user_metadata, expected_etag, maxRefs, maxIds) ==
    \E r \in {put_object_if_etag_mismatch(St, bucket_name, key, data, content_type,
                                          user_metadata, expected_etag, clock)} :
       /\ WithinBounds(r.st, maxRefs, maxIds)
       /\ Install(r.st)
       /\ last' = [op |-> "put_if_etag_mismatch", bucket |-> bucket_name, key |-> key,
                   etag |-> generate_etag(data), expected |-> expected_etag,
                   status |-> r.status, branch |-> r.branch, obj |-> r.obj]
       /\ UNCHANGED <<clock, tasks, locks>>

\* The ETags a caller may name as expected.
ExpectedEtags == {generate_etag(data) : data \in Datas}

\* The requests together with the two conditional puts.
NextConditional ==
    \/ Requests(CoreNames, CoreTargets, Datas, {UM0}, {"Allow", "Reference"},
                MaxRefCount, MaxEtagIds)
    \/ \E t \in CoreTargets, data \in Datas, ct \in ContentTypes :
          PutObjectIfNotExists(t[1], t[2], data, ct, UM0, MaxRefCount, MaxEtagIds)
    \/ \E t \in CoreTargets, data \in Datas, ct \in ContentTypes, expected \in ExpectedEtags :
          PutObjectIfEtagMismatch(t[1], t[2], data, ct, UM0, expected,
                                  MaxRefCount, MaxEtagIds)
SpecConditional == Init /\ [][NextConditional]_vars

\* ------------------------------------------------------------- listing
\* Largest max_keys a listing asks for.
MaxPageSize == 2

\* The body stored under each listed key (all different).
ListData(key) ==
    CASE key = KPhotoA -> <<3>> [] key = KPhotoB -> <<4>>
      [] key = KPhotoC -> <<5>> [] key = KDocX -> <<6>>

\* The store after create_bucket(B1) and a put of each of the keys.
RECURSIVE Populate(_, _)
Populate(S, keys) ==
    IF keys = {} THEN S
    ELSE LET key == CHOOSE k \in keys : TRUE
         IN Populate(put_object(S, B1, key, ListData(key), OctetStream, UM0, 0).st,
                     keys \ {key})

\* The markers a caller may pass: none, the file name of a listed key, or a
\* name no file has.
NoSuchFile == <<"0", "0", "0", "0", ".", "j", "s", "o", "n">>
Markers ==
    {None, Some(NoSuchFile)}
        \cup {Some(file_name(generate_object_id(B1, key))) : key \in ListKeys}
PageSizes == {None} \cup {Some(n) : n \in 0..MaxPageSize}

\* A client that pages through B1: marker = file name of the last entry of
\* the previous page, until a page comes back empty.
PagingClient(max_keys) ==
    [op |-> "paging", max_keys |-> max_keys, marker |-> None, seen |-> <<>>,
     pc |-> "page"]

\* Any subset of the listed keys is stored; one paging client is about to start.
InitList ==
    /\ clock = 0
    /\ last = [op |-> "init", bucket |-> <<>>, key |-> <<>>, status |-> "ok",
               branch |-> "init"]
    /\ locks = [l \in LockNames |-> FreeLock]
    /\ \E n \in 1..MaxPageSize : tasks = <<PagingClient(Some(n))>>
    /\ \E keys \in SUBSET ListKeys :
          \E S \in {Populate(create_bucket(
                        [buckets |-> EmptyMap, object_index |-> EmptyMap,
                         etag_index |-> EmptyMap, bucket_dirs |-> {},
                         bucket_json |-> EmptyMap, sidecars |-> EmptyMap,
                         datafiles |-> EmptyMap], B1, 0).st, keys)} :
             /\ buckets = S.buckets
             /\ object_index = S.object_index
             /\ etag_index = S.etag_index
             /\ bucket_dirs = S.bucket_dirs
             /\ bucket_json = S.bucket_json
             /\ sidecars = S.sidecars
             /\ datafiles = S.datafiles

\* StorageService::list_object_metadata_with_pagination
ListObjectMetadata(bucket_name, max_keys, marker) ==
    /\ last' = [op |-> "list_metadata", bucket |-> bucket_name, key |-> <<>>,
                status |-> "ok", branch |-> "list", max_keys |-> max_keys,
                marker |-> marker,
                objects |-> list_object_metadata_with_pagination(
                                St, bucket_name, max_keys, marker)]
    /\ UNCHANGED <<StoreVars, clock, tasks, locks>>

\* The paging client asks for its next page.
NextPage ==
    /\ tasks[1].op = "paging" /\ tasks[1].pc = "page"
    /\ \E page \in {list_object_metadata_with_pagination(
                        St, B1, tasks[1].max_keys, tasks[1].marker)} :
          tasks' = [tasks EXCEPT ![1] =
                      IF page = <<>> THEN [@ EXCEPT !.pc = "done"]
                      ELSE [@ EXCEPT
                              !.seen = @ \o [i \in 1..Len(page) |-> page[i].key],
                              !.marker = Some(file_name(generate_object_id(
                                                 B1, page[Len(page)].key)))]]
    /\ UNCHANGED <<StoreVars, clock, last, locks>>

\* The prefixes and delimiters a listing may name.
PhotosPrefix == <<"p", "h", "o", "t", "o", "s", "/">>
DocsPrefix == <<"d", "o", "c", "s", "/">>
Slash == <<"/">>
Prefixes == {None, Some(PhotosPrefix), Some(DocsPrefix)}
Delimiters == {None, Some(Slash)}

\* ObjectService::list_objects
ListObjects(bucket_name, prefix, delimiter, max_keys, marker) ==
    /\ \E r \in {list_objects(St, bucket_name, prefix, delimiter, max_keys, marker, clock)} :
          last' = [op |-> "list_objects", bucket |-> bucket_name, key |-> <<>>,
                   status |-> r.status, branch |-> "list", prefix |-> prefix,
                   delimiter |-> delimiter, max_keys |-> max_keys, marker |-> marker,
                   objects |-> r.objects]
    /\ UNCHANGED <<StoreVars, clock, tasks, locks>>

NextList ==
    \/ \E max_keys \in PageSizes, marker \in Markers :
          ListObjectMetadata(B1, max_keys, marker)
    \/ NextPage
    \/ \E name \in {B1, B2}, prefix \in Prefixes, delimiter \in Delimiters :
          ListObjects(name, prefix, delimiter, None, None)
SpecList == InitList /\ [][NextList]_vars

\* Listings with a one-character and a longer delimiter, whole or paged.
Year2024 == <<"2", "0", "2", "4">>
RollupDelimiters == {Some(Slash), Some(Year2024)}
NextRollup ==
    \E prefix \in Prefixes, delimiter \in RollupDelimiters, max_keys \in PageSizes :
        ListObjects(B1, prefix, delimiter, max_keys, None)
SpecRollup == InitList /\ [][NextRollup]_vars

\* ------------------------------------------- concurrent create_bucket
\* create_bucket calls run as tasks that interleave at their await points.
\* Number of tasks in flight.
MaxTasks == 3
TaskIds == 1..MaxTasks

\* A variant of the write lock that never waits.
CanWrite_always(lock) == TRUE

\* RwLock::write() is granted when nobody holds the lock.
CanWrite(lock) == lock.writer = NoTask /\ lock.readers = {}

\* A call that has not run its first statement.
StartTask(op, name) ==
    [op |-> op, name |-> name, pc |-> "start", result |-> "pending", bucket |-> None]

\* validate_bucket_name(&name).map_err(..)?
CreateValidate(i) ==
    /\ tasks[i].op = "create_bucket" /\ tasks[i].pc = "start"
    /\ tasks' = [tasks EXCEPT ![i] =
                    IF validate_bucket_name(@.name) = "ok"
                    THEN [@ EXCEPT !.pc = "lock"]
                    ELSE [@ EXCEPT !.pc = "done", !.result = "invalid_name"]]
    /\ UNCHANGED <<StoreVars, clock, last, locks>>

\* let mut buckets = self.storage.buckets.write().await;
CreateLock(i) ==
    /\ tasks[i].op = "create_bucket" /\ tasks[i].pc = "lock"
    /\ CanWrite(locks["buckets"])
    /\ locks' = [locks EXCEPT !["buckets"].writer = i]
    /\ tasks' = [tasks EXCEPT ![i].pc = "check"]
    /\ UNCHANGED <<StoreVars, clock, last>>

\* if buckets.contains_key(&name) { return Err(..) }  (the guard is dropped)
CreateCheck(i) ==
    /\ tasks[i].op = "create_bucket" /\ tasks[i].pc = "check"
    /\ IF tasks[i].name \in DOMAIN buckets
       THEN /\ tasks' = [tasks EXCEPT ![i].pc = "done", ![i].result = "already_exists"]
            /\ locks' = [locks EXCEPT !["buckets"].writer =
                            IF @ = i THEN NoTask ELSE @]
       ELSE /\ tasks' = [tasks EXCEPT ![i].pc = "save"]
            /\ UNCHANGED locks
    /\ UNCHANGED <<StoreVars, clock, last>>

\* let bucket = Bucket::new(name.clone()); save_bucket_metadata(&bucket).await?;
CreateSave(i) ==
    /\ tasks[i].op = "create_bucket" /\ tasks[i].pc = "save"
    /\ \E bucket \in {BucketNew(tasks[i].name, clock)} :
          /\ Install(save_bucket_metadata(St, bucket))
          /\ tasks' = [tasks EXCEPT ![i].pc = "insert", ![i].bucket = Some(bucket)]
    /\ UNCHANGED <<clock, last, locks>>

\* buckets.insert(name, bucket.clone()); Ok(bucket)  (the guard is dropped)
CreateInsert(i) ==
    /\ tasks[i].op = "create_bucket" /\ tasks[i].pc = "insert"
    /\ buckets' = MapPut(buckets, tasks[i].name, Unwrap(tasks[i].bucket))
    /\ tasks' = [tasks EXCEPT ![i].pc = "done", ![i].result = "ok"]
    /\ locks' = [locks EXCEPT !["buckets"].writer = IF @ = i THEN NoTask ELSE @]
    /\ UNCHANGED <<object_index, etag_index, bucket_dirs, bucket_json, sidecars,
                   datafiles, clock, last>>

\* Every task is a create_bucket call for one of the names.
InitCreate ==
    /\ EmptyStore
    /\ tasks \in [TaskIds -> {StartTask("create_bucket", name) : name \in BucketNames}]
    /\ locks = [l \in LockNames |-> FreeLock]

NextCreate ==
    \E i \in TaskIds :
        \/ CreateValidate(i)
        \/ CreateLock(i)
        \/ CreateCheck(i)
        \/ CreateSave(i)
        \/ CreateInsert(i)
SpecCreate == InitCreate /\ [][NextCreate]_vars

\* ------------------------------------------ concurrent object requests
\* put, delete_object and delete_bucket calls run as tasks.  A step is one
\* access to a lock-protected map or to a file; consecutive reads are one step.
\* Number of object calls in flight.
MaxCalls == 2
CallIds == 1..MaxCalls
KC == <<"c">>

\* RwLock::read() is granted when no writer holds the lock.
CanRead(lock) == lock.writer = NoTask

\* A call that has not run its first statement.
StartCall(op, bucket_name, key, data, mode) ==
    [op |-> op, bucket_name |-> bucket_name, key |-> key, data |-> data,
     mode |-> mode, pc |-> "start", result |-> "pending", branch |-> "none",
     duplicate_keys |-> <<>>, object_id |-> None, metadata |-> None,
     holder_id |-> None, holder_metadata |-> None]

\* The call returns.
Return(t, result) == [t EXCEPT !.pc = "done", !.result = result]
\* The call moves on to statement pc, or returns Ok when there is none left.
Goto(t, pc) == IF pc = "done" THEN Return(t, "ok") ELSE [t EXCEPT !.pc = pc]

\* A write path that updates the indexes before it writes the files.
write_path_order_index_first == <<"add_index", "add_etag", "write_data", "save_meta">>

\* The statements of the write path of put_object_with_versioning, in order.
write_path_order == <<"write_data", "save_meta", "add_index", "add_etag">>

\* The statement after pc in the write path.
After(pc) ==
    LET n == CHOOSE j \in 1..Len(write_path_order) : write_path_order[j] = pc
    IN IF n = Len(write_path_order) THEN "done" ELSE write_path_order[n + 1]

\* let duplicate_keys = self.find_duplicate_content_keys(bucket_name, &etag, Some(key)).await?;
PutFindDuplicates(i) ==
    /\ tasks[i].op = "put" /\ tasks[i].pc = "start"
    /\ \E dups \in {find_duplicate_content_keys(St, tasks[i].bucket_name,
                        generate_etag(tasks[i].data), tasks[i].key)} :
          tasks' = [tasks EXCEPT ![i] =
              IF dups # <<>> /\ @.mode = "Reject" THEN Return(@, "duplicate_content")
              ELSE IF dups # <<>> /\ @.mode = "Reference"
              THEN [@ EXCEPT !.pc = "select", !.duplicate_keys = dups,
                             !.branch = "reference"]
              ELSE [@ EXCEPT !.pc = "validate"]]
    /\ UNCHANGED <<StoreVars, clock, last, locks>>

\* validate_object_key(key)?; buckets.read().await; contains_key; drop(bucket)
PutValidate(i) ==
    /\ tasks[i].op = "put" /\ tasks[i].pc = "validate"
    /\ validate_object_key(tasks[i].key) = "ok" => CanRead(locks["buckets"])
    /\ tasks' = [tasks EXCEPT ![i] =
          IF validate_object_key(@.key) # "ok" THEN Return(@, "invalid_key")
          ELSE IF @.bucket_name \notin DOMAIN buckets THEN Return(@, "bucket_not_found")
          ELSE [@ EXCEPT !.pc = "etag_check"]]
    /\ UNCHANGED <<StoreVars, clock, last, locks>>

\* the cross-key check: is_etag_exists, find_objects_by_etag, load_object_metadata
PutEtagCheck(i) ==
    /\ tasks[i].op = "put" /\ tasks[i].pc = "etag_check"
    /\ \E ids \in {find_objects_by_etag(St, tasks[i].bucket_name,
                                        generate_etag(tasks[i].data))} :
          tasks' = [tasks EXCEPT ![i] =
              IF ids # <<>> /\ IsSome(load_object_metadata(St, @.bucket_name, ids[1]))
              THEN Return(@, "content_exists")
              ELSE [@ EXCEPT !.pc = "same_key"]]
    /\ UNCHANGED <<StoreVars, clock, last, locks>>

\* find_object_id_by_key, load_object_metadata, existing_metadata.etag == etag
PutSameKey(i) ==
    /\ tasks[i].op = "put" /\ tasks[i].pc = "same_key"
    /\ \E id \in {find_object_id_by_key(St, tasks[i].bucket_name, tasks[i].key)} :
       \E md \in {IF IsSome(id) THEN load_object_metadata(St, tasks[i].bucket_name, Unwrap(id))
                  ELSE None} :
          tasks' = [tasks EXCEPT ![i] =
              IF IsSome(md) /\ Unwrap(md).etag = generate_etag(@.data)
              THEN [@ EXCEPT !.pc = "refresh", !.object_id = id, !.metadata = md,
                             !.branch = "idempotent"]
              ELSE [@ EXCEPT !.pc = write_path_order[1], !.branch = "written",
                             !.object_id = Some(generate_object_id(tasks[i].bucket_name,
                                                                  tasks[i].key))]]
    /\ UNCHANGED <<StoreVars, clock, last, locks>>

\* save_object_metadata(bucket_name, &existing_object_id, &updated_metadata)
PutRefresh(i) ==
    /\ tasks[i].op = "put" /\ tasks[i].pc = "refresh"
    /\ Install(save_object_metadata(St, tasks[i].bucket_name, Unwrap(tasks[i].object_id),
                   [Unwrap(tasks[i].metadata) EXCEPT !.last_modified = clock,
                                                    !.user_metadata = UM0]))
    /\ tasks' = [tasks EXCEPT ![i] = Return(@, "ok")]
    /\ UNCHANGED <<clock, last, locks>>

\* fs::create_dir_all(parent)?; fs::write(&object_path, data)?;
PutWriteData(i) ==
    /\ tasks[i].op = "put" /\ tasks[i].pc = "write_data"
    /\ Install(write_object_data(St, tasks[i].bucket_name, Unwrap(tasks[i].object_id),
                                 tasks[i].data))
    /\ tasks' = [tasks EXCEPT ![i] = Goto(@, After("write_data"))]
    /\ UNCHANGED <<clock, last, locks>>

\* self.storage.save_object_metadata(bucket_name, &object_id, &metadata).await?;
PutSaveMetadata(i) ==
    /\ tasks[i].op = "put" /\ tasks[i].pc = "save_meta"
    /\ Install(save_object_metadata(St, tasks[i].bucket_name, Unwrap(tasks[i].object_id),
                   MetadataFromObject(ObjectNew(tasks[i].key, tasks[i].bucket_name,
                       Len(tasks[i].data), get_mime_type(tasks[i].key),
                       generate_etag(tasks[i].data), UM0, clock))))
    /\ tasks' = [tasks EXCEPT ![i] = Goto(@, After("save_meta"))]
    /\ UNCHANGED <<clock, last, locks>>

\* self.storage.add_object_to_index(bucket_name, key, &object_id).await?;
PutAddObjectIndex(i) ==
    /\ tasks[i].op = "put" /\ tasks[i].pc = "add_index"
    /\ Install(add_object_to_index(St, tasks[i].bucket_name, tasks[i].key,
                                   Unwrap(tasks[i].object_id)))
    /\ tasks' = [tasks EXCEPT ![i] =
          Goto(@, IF @.branch = "reference" THEN "add_etag" ELSE After("add_index"))]
    /\ UNCHANGED <<clock, last, locks>>

\* self.storage.add_etag_to_index(bucket_name, &etag, &object_id).await?; Ok(..)
PutAddEtagIndex(i) ==
    /\ tasks[i].op = "put" /\ tasks[i].pc = "add_etag"
    /\ Install(add_etag_to_index(St, tasks[i].bucket_name, generate_etag(tasks[i].data),
                                 Unwrap(tasks[i].object_id)))
    /\ tasks' = [tasks EXCEPT ![i] =
          Goto(@, IF @.branch = "reference" THEN "done" ELSE After("add_etag"))]
    /\ UNCHANGED <<clock, last, locks>>

\* the loop over duplicate_keys and the fallback to duplicate_keys[0]
PutSelectHolder(i) ==
    /\ tasks[i].op = "put" /\ tasks[i].pc = "select"
    /\ \E best \in {select_best_holder(St, tasks[i].bucket_name, tasks[i].duplicate_keys,
                                       1, <<None, 0>>)[1]} :
       \E holder \in {IF IsSome(best) THEN best
                      ELSE find_object_id_by_key(St, tasks[i].bucket_name,
                                                 tasks[i].duplicate_keys[1])} :
          tasks' = [tasks EXCEPT ![i] =
              IF holder = None THEN Return(@, "duplicate_not_found")
              ELSE [@ EXCEPT !.pc = "load_holder", !.holder_id = holder]]
    /\ UNCHANGED <<StoreVars, clock, last, locks>>

\* if let Some(mut holder_metadata) = load_object_metadata(bucket_name, &data_holder_id)
PutLoadHolder(i) ==
    /\ tasks[i].op = "put" /\ tasks[i].pc = "load_holder"
    /\ \E md \in {load_object_metadata(St, tasks[i].bucket_name, Unwrap(tasks[i].holder_id))} :
          tasks' = [tasks EXCEPT ![i] =
              [@ EXCEPT !.holder_metadata = md,
                        !.pc = IF IsSome(md) THEN "save_holder" ELSE "save_ref"]]
    /\ UNCHANGED <<StoreVars, clock, last, locks>>

\* holder_metadata.reference_count += 1; save_object_metadata(.., &holder_metadata)
PutSaveHolder(i) ==
    /\ tasks[i].op = "put" /\ tasks[i].pc = "save_holder"
    /\ Install(save_object_metadata(St, tasks[i].bucket_name, Unwrap(tasks[i].holder_id),
                   increment_reference_count(Unwrap(tasks[i].holder_metadata))))
    /\ tasks' = [tasks EXCEPT ![i].pc = "save_ref"]
    /\ UNCHANGED <<clock, last, locks>>

\* save_object_metadata(bucket_name, &new_object_id, &new_metadata)
PutSaveReference(i) ==
    /\ tasks[i].op = "put" /\ tasks[i].pc = "save_ref"
    /\ \E new_object_id \in {generate_object_id(tasks[i].bucket_name, tasks[i].key)} :
          /\ Install(save_object_metadata(St, tasks[i].bucket_name, new_object_id,
                 [MetadataFromObject(ObjectNew(tasks[i].key, tasks[i].bucket_name,
                      Len(tasks[i].data), OctetStream, generate_etag(tasks[i].data),
                      UM0, clock))
                  EXCEPT !.data_holder_id = tasks[i].holder_id, !.reference_count = 0]))
          /\ tasks' = [tasks EXCEPT ![i].pc = "add_index",
                                    ![i].object_id = Some(new_object_id)]
    /\ UNCHANGED <<clock, last, locks>>

\* the registry check, find_object_id_by_key, load_object_metadata and the
\* choice of the branch
DeleteLookup(i) ==
    /\ tasks[i].op = "delete_object" /\ tasks[i].pc = "start"
    /\ CanRead(locks["buckets"])
    /\ \E id \in {find_object_id_by_key(St, tasks[i].bucket_name, tasks[i].key)} :
       \E md \in {IF IsSome(id) THEN load_object_metadata(St, tasks[i].bucket_name, Unwrap(id))
                  ELSE None} :
          tasks' = [tasks EXCEPT ![i] =
              IF @.bucket_name \notin DOMAIN buckets THEN Return(@, "bucket_not_found")
              ELSE IF id = None THEN Return(@, "not_found")
              ELSE IF md = None THEN Return(@, "metadata_not_found")
              ELSE IF IsSome(Unwrap(md).data_holder_id)
              THEN [@ EXCEPT !.pc = "del_meta", !.branch = "reference", !.object_id = id,
                             !.metadata = md, !.holder_id = Unwrap(md).data_holder_id]
              ELSE IF has_references(Unwrap(md)) THEN Return(@, "has_references")
              ELSE [@ EXCEPT !.pc = "rm_data", !.branch = "holder", !.object_id = id,
                             !.metadata = md]]
    /\ UNCHANGED <<StoreVars, clock, last, locks>>

\* if object_path.exists() { fs::remove_file(object_path)?; }
DeleteRemoveData(i) ==
    /\ tasks[i].op = "delete_object" /\ tasks[i].pc = "rm_data"
    /\ Install(remove_object_data(St, tasks[i].bucket_name, Unwrap(tasks[i].object_id)))
    /\ tasks' = [tasks EXCEPT ![i].pc = "del_meta"]
    /\ UNCHANGED <<clock, last, locks>>

\* self.storage.delete_object_metadata(bucket_name, &object_id).await?;
DeleteMetadata(i) ==
    /\ tasks[i].op = "delete_object" /\ tasks[i].pc = "del_meta"
    /\ Install(delete_object_metadata(St, tasks[i].bucket_name, Unwrap(tasks[i].object_id)))
    /\ tasks' = [tasks EXCEPT ![i].pc = "rm_index"]
    /\ UNCHANGED <<clock, last, locks>>

\* self.storage.remove_object_from_index(bucket_name, key).await?;
DeleteRemoveObjectIndex(i) ==
    /\ tasks[i].op = "delete_object" /\ tasks[i].pc = "rm_index"
    /\ Install(remove_object_from_index(St, tasks[i].bucket_name, tasks[i].key))
    /\ tasks' = [tasks EXCEPT ![i].pc = "rm_etag"]
    /\ UNCHANGED <<clock, last, locks>>

\* self.storage.remove_etag_from_index(bucket_name, &metadata.etag, &object_id).await?;
DeleteRemoveEtagIndex(i) ==
    /\ tasks[i].op = "delete_object" /\ tasks[i].pc = "rm_etag"
    /\ Install(remove_etag_from_index(St, tasks[i].bucket_name,
                   Unwrap(tasks[i].metadata).etag, Unwrap(tasks[i].object_id)))
    /\ tasks' = [tasks EXCEPT ![i] =
          IF @.branch = "reference" THEN [@ EXCEPT !.pc = "load_holder"]
          ELSE Return(@, "ok")]
    /\ UNCHANGED <<clock, last, locks>>

\* if let Some(mut holder_metadata) = load_object_metadata(bucket_name, data_holder_id)
\* { if holder_metadata.reference_count > 0 { .. } }
DeleteLoadHolder(i) ==
    /\ tasks[i].op = "delete_object" /\ tasks[i].pc = "load_holder"
    /\ \E md \in {load_object_metadata(St, tasks[i].bucket_name, Unwrap(tasks[i].holder_id))} :
          tasks' = [tasks EXCEPT ![i] =
              IF IsSome(md) /\ Unwrap(md).reference_count > 0
              THEN [@ EXCEPT !.pc = "save_holder", !.holder_metadata = md]
              ELSE Return(@, "ok")]
    /\ UNCHANGED <<StoreVars, clock, last, locks>>

\* holder_metadata.reference_count -= 1; save_object_metadata(.., &holder_metadata)
DeleteSaveHolder(i) ==
    /\ tasks[i].op = "delete_object" /\ tasks[i].pc = "save_holder"
    /\ Install(save_object_metadata(St, tasks[i].bucket_name, Unwrap(tasks[i].holder_id),
                   decrement_reference_count(Unwrap(tasks[i].holder_metadata))))
    /\ tasks' = [tasks EXCEPT ![i] = Return(@, "ok")]
    /\ UNCHANGED <<clock, last, locks>>

\* let mut buckets = self.storage.buckets.write().await; contains_key(name)
BucketLock(i) ==
    /\ tasks[i].op = "delete_bucket" /\ tasks[i].pc = "start"
    /\ CanWrite(locks["buckets"])
    /\ IF tasks[i].bucket_name \in DOMAIN buckets
       THEN /\ locks' = [locks EXCEPT !["buckets"].writer = i]
            /\ tasks' = [tasks EXCEPT ![i].pc = "empty"]
       ELSE /\ tasks' = [tasks EXCEPT ![i] = Return(@, "bucket_not_found")]
            /\ UNCHANGED locks
    /\ UNCHANGED <<StoreVars, clock, last>>

\* if !self.storage.is_bucket_empty(name).await { return Err(..) }
BucketEmptyCheck(i) ==
    /\ tasks[i].op = "delete_bucket" /\ tasks[i].pc = "empty"
    /\ IF is_bucket_empty(St, tasks[i].bucket_name)
       THEN /\ tasks' = [tasks EXCEPT ![i].pc = "rmdir"]
            /\ UNCHANGED locks
       ELSE /\ tasks' = [tasks EXCEPT ![i] = Return(@, "not_empty")]
            /\ locks' = [locks EXCEPT !["buckets"].writer = NoTask]
    /\ UNCHANGED <<StoreVars, clock, last>>

\* self.storage.delete_bucket_directory(name).await?;
BucketRemoveDirectory(i) ==
    /\ tasks[i].op = "delete_bucket" /\ tasks[i].pc = "rmdir"
    /\ Install(delete_bucket_directory(St, tasks[i].bucket_name))
    /\ tasks' = [tasks EXCEPT ![i].pc = "unregister"]
    /\ UNCHANGED <<clock, last, locks>>

\* buckets.remove(name); Ok(())  (the guard is dropped)
BucketUnregister(i) ==
    /\ tasks[i].op = "delete_bucket" /\ tasks[i].pc = "unregister"
    /\ buckets' = MapDel(buckets, tasks[i].bucket_name)
    /\ locks' = [locks EXCEPT !["buckets"].writer = NoTask]
    /\ tasks' = [tasks EXCEPT ![i] = Return(@, "ok")]
    /\ UNCHANGED <<object_index, etag_index, bucket_dirs, bucket_json, sidecars,
                   datafiles, clock, last>>

\* The calls that run against each other.
Calls ==
    {StartCall("put", B1, KA, DX, "Reference"), StartCall("put", B1, KC, DX, "Reference"),
     StartCall("put", B1, KA, DX, "Allow"), StartCall("put", B1, KA, DY, "Allow"),
     StartCall("delete_object", B1, KA, <<>>, "none"),
     StartCall("delete_object", B1, KB, <<>>, "none"),
     StartCall("delete_bucket", B1, <<>>, <<>>, "none")}

\* The stores the calls start from: bucket B1 empty, with the object KB, and
\* with KB and a reference KA to it.
NoStore ==
    [buckets |-> EmptyMap, object_index |-> EmptyMap, etag_index |-> EmptyMap,
     bucket_dirs |-> {}, bucket_json |-> EmptyMap, sidecars |-> EmptyMap,
     datafiles |-> EmptyMap]
StoreEmptyBucket == create_bucket(NoStore, B1, 0).st
StoreHolder == put_object(StoreEmptyBucket, B1, KB, DX, OctetStream, UM0, 0).st
StoreHolderAndReference ==
    put_object_with_deduplication(StoreHolder, B1, KA, DX, OctetStream, UM0,
                                  "Reference", 0).st
StartStores == {StoreEmptyBucket, StoreHolder, StoreHolderAndReference}

InitCalls ==
    /\ clock = 0
    /\ last = [op |-> "init", bucket |-> <<>>, key |-> <<>>, status |-> "ok",
               branch |-> "init"]
    /\ locks = [l \in LockNames |-> FreeLock]
    /\ tasks \in [CallIds -> Calls]
    /\ \E S \in StartStores :
          /\ buckets = S.buckets
          /\ object_index = S.object_index
          /\ etag_index = S.etag_index
          /\ bucket_dirs = S.bucket_dirs
          /\ bucket_json = S.bucket_json
          /\ sidecars = S.sidecars
          /\ datafiles = S.datafiles

NextCalls ==
    \E i \in CallIds :
        \/ PutFindDuplicates(i)
        \/ PutValidate(i)
        \/ PutEtagCheck(i)
        \/ PutSameKey(i)
        \/ PutRefresh(i)
        \/ PutWriteData(i)
        \/ PutSaveMetadata(i)
        \/ PutAddObjectIndex(i)
        \/ PutAddEtagIndex(i)
        \/ PutSelectHolder(i)
        \/ PutLoadHolder(i)
        \/ PutSaveHolder(i)
        \/ PutSaveReference(i)
        \/ DeleteLookup(i)
        \/ DeleteRemoveData(i)
        \/ DeleteMetadata(i)
        \/ DeleteRemoveObjectIndex(i)
        \/ DeleteRemoveEtagIndex(i)
        \/ DeleteLoadHolder(i)
        \/ DeleteSaveHolder(i)
        \/ BucketLock(i)
        \/ BucketEmptyCheck(i)
        \/ BucketRemoveDirectory(i)
        \/ BucketUnregister(i)
SpecCalls == InitCalls /\ [][NextCalls]_vars

\* ----------------------------------------- concurrent puts, all Reject
\* Every put of the bucket uses the Reject policy.
RejectCalls ==
    {StartCall("put", B1, key, data, "Reject") : key \in {KA, KC}, data \in Datas}

InitReject ==
    /\ clock = 0
    /\ last = [op |-> "init", bucket |-> <<>>, key |-> <<>>, status |-> "ok",
               branch |-> "init"]
    /\ locks = [l \in LockNames |-> FreeLock]
    /\ tasks \in [CallIds -> RejectCalls]
    /\ \E S \in {StoreEmptyBucket, StoreHolder} :
          /\ buckets = S.buckets
          /\ object_index = S.object_index
          /\ etag_index = S.etag_index
          /\ bucket_dirs = S.bucket_dirs
          /\ bucket_json = S.bucket_json
          /\ sidecars = S.sidecars
          /\ datafiles = S.datafiles

NextReject ==
    \E i \in CallIds :
        \/ PutFindDuplicates(i)
        \/ PutValidate(i)
        \/ PutEtagCheck(i)
        \/ PutSameKey(i)
        \/ PutRefresh(i)
        \/ PutWriteData(i)
        \/ PutSaveMetadata(i)
        \/ PutAddObjectIndex(i)
        \/ PutAddEtagIndex(i)
SpecReject == InitReject /\ [][NextReject]_vars

\* ------------------------------------------- concurrent get_object calls
\* the registry check, find_object_id_by_key and load_object_metadata of
\* get_object; the call keeps the sidecar it read
GetLookup(i) ==
    /\ tasks[i].op = "get_object" /\ tasks[i].pc = "start"
    /\ CanRead(locks["buckets"])
    /\ \E id \in {find_object_id_by_key(St, tasks[i].bucket_name, tasks[i].key)} :
       \E md \in {IF IsSome(id) THEN load_object_metadata(St, tasks[i].bucket_name, Unwrap(id))
                  ELSE None} :
          tasks' = [tasks EXCEPT ![i] =
              IF @.bucket_name \notin DOMAIN buckets THEN Return(@, "bucket_not_found")
              ELSE IF id = None THEN Return(@, "not_found")
              ELSE IF md = None THEN Return(@, "metadata_not_found")
              ELSE [@ EXCEPT !.pc = "read_data", !.object_id = id, !.metadata = md]]
    /\ UNCHANGED <<StoreVars, clock, last, locks>>

\* the holder check, object_path.exists() and fs::read(object_path); the
\* bytes read are kept in the call's data
GetReadData(i) ==
    /\ tasks[i].op = "get_object" /\ tasks[i].pc = "read_data"
    /\ \E holder \in {Unwrap(tasks[i].metadata).data_holder_id} :
       \E object_path \in {get_object_data_path(tasks[i].bucket_name,
                               data_object_id_of(Unwrap(tasks[i].object_id),
                                                 Unwrap(tasks[i].metadata)))} :
          tasks' = [tasks EXCEPT ![i] =
              IF IsSome(holder)
                 /\ load_object_metadata(St, tasks[i].bucket_name, Unwrap(holder)) = None
              THEN Return(@, "holder_not_found")
              ELSE IF object_path \notin DOMAIN datafiles THEN Return(@, "data_not_found")
              ELSE [Return(@, "ok") EXCEPT !.data = datafiles[object_path]]]
    /\ UNCHANGED <<StoreVars, clock, last, locks>>

\* The calls of the readers and of the writers they race with.
ReadCalls ==
    Calls \cup {StartCall("get_object", B1, KA, <<>>, "none"),
                StartCall("get_object", B1, KB, <<>>, "none"),
                StartCall("put", B1, KB, DY, "Allow")}

InitReads ==
    /\ clock = 0
    /\ last = [op |-> "init", bucket |-> <<>>, key |-> <<>>, status |-> "ok",
               branch |-> "init"]
    /\ locks = [l \in LockNames |-> FreeLock]
    /\ tasks \in [CallIds -> ReadCalls]
    /\ \E S \in StartStores :
          /\ buckets = S.buckets
          /\ object_index = S.object_index
          /\ etag_index = S.etag_index
          /\ bucket_dirs = S.bucket_dirs
          /\ bucket_json = S.bucket_json
          /\ sidecars = S.sidecars
          /\ datafiles = S.datafiles

NextReads ==
    \/ NextCalls
    \/ \E i \in CallIds : GetLookup(i) \/ GetReadData(i)
SpecReads == InitReads /\ [][NextReads]_vars

\* ------------------------------------------------------ lock protocol
\* The three tokio RwLocks of StorageService and the order in which every
\* operation takes and drops them.  tokio's RwLock is fair: requests queue in
\* arrival order and a request is granted only at the head of the queue.
AllLockNames == {"buckets", "object_index", "etag_index"}
QueuedLock == [writer |-> NoTask, readers |-> {}, queue |-> <<>>]
Acquire(lock, mode) == [act |-> "acquire", lock |-> lock, mode |-> mode]
Release(lock, mode) == [act |-> "release", lock |-> lock, mode |-> mode]
Section(lock, mode) == <<Acquire(lock, mode), Release(lock, mode)>>

\* A variant of add_object_to_index that looks the bucket up in the registry
\* while it holds the object_index write lock.
add_object_to_index_locks_nested ==
    <<Acquire("object_index", "write")>> \o Section("buckets", "read")
        \o <<Release("object_index", "write")>>

\* add_object_to_index: the object_index write lock, held for the insert only.
add_object_to_index_locks == Section("object_index", "write")

\* The lock steps of each operation, one sequence per path through its code.
LockPaths(op) ==
    LET registry_check == Section("buckets", "read")
        find_object_id_by_key_locks == Section("object_index", "read")
        remove_object_from_index_locks == Section("object_index", "write")
        get_bucket_object_count_locks == Section("object_index", "read")
        find_objects_by_etag_locks == Section("etag_index", "read")
        add_etag_to_index_locks == Section("etag_index", "write")
        remove_etag_from_index_locks == Section("etag_index", "write")
    IN CASE op = "create_bucket" -> {Section("buckets", "write")}
         [] op = "delete_bucket" ->
              {<<Acquire("buckets", "write")>> \o get_bucket_object_count_locks
                   \o <<Release("buckets", "write")>>}
         [] op = "put" ->
              {find_objects_by_etag_locks \o registry_check \o find_objects_by_etag_locks
                   \o find_object_id_by_key_locks \o add_object_to_index_locks
                   \o add_etag_to_index_locks,
               find_objects_by_etag_locks \o find_object_id_by_key_locks
                   \o add_object_to_index_locks \o add_etag_to_index_locks}
         [] op = "get_object" -> {registry_check \o find_object_id_by_key_locks}
         [] op = "delete_object" ->
              {registry_check \o find_object_id_by_key_locks
                   \o remove_object_from_index_locks \o remove_etag_from_index_locks}

LockOps == <<"create_bucket", "delete_bucket", "put", "get_object", "delete_object">>

\* Calls about to start; the calls are interchangeable, so they are numbered
\* in the order of LockOps.
InitLocks ==
    /\ EmptyStore
    /\ locks = [l \in AllLockNames |-> QueuedLock]
    /\ \E kind \in [CallIds -> 1..Len(LockOps)] :
          /\ \A i, j \in CallIds : i < j => kind[i] <= kind[j]
          /\ \E todo \in [CallIds -> UNION {LockPaths(LockOps[n]) : n \in 1..Len(LockOps)}] :
                /\ \A i \in CallIds : todo[i] \in LockPaths(LockOps[kind[i]])
                /\ tasks = [i \in CallIds |->
                               [op |-> LockOps[kind[i]], todo |-> todo[i], pc |-> "run",
                                held |-> {}]]

\* lock.read() / lock.write(): the call joins the queue of the lock.
LockRequest(i) ==
    /\ tasks[i].pc = "run" /\ tasks[i].todo # <<>>
    /\ Head(tasks[i].todo).act = "acquire"
    /\ locks' = [locks EXCEPT ![Head(tasks[i].todo).lock].queue = Append(@, i)]
    /\ tasks' = [tasks EXCEPT ![i].pc = "wait"]
    /\ UNCHANGED <<StoreVars, clock, last>>

\* .await returns the guard: the call is at the head of the queue, and no
\* writer (for a write, nobody) holds the lock.
LockGrant(i) ==
    /\ tasks[i].pc = "wait"
    /\ LET step == Head(tasks[i].todo)
           lock == locks[step.lock]
       IN /\ lock.queue # <<>> /\ Head(lock.queue) = i
          /\ IF step.mode = "write" THEN lock.writer = NoTask /\ lock.readers = {}
             ELSE lock.writer = NoTask
          /\ locks' = [locks EXCEPT ![step.lock] =
                          [writer |-> IF step.mode = "write" THEN i ELSE NoTask,
                           readers |-> IF step.mode = "read" THEN lock.readers \cup {i}
                                       ELSE {},
                           queue |-> Tail(lock.queue)]]
          /\ tasks' = [tasks EXCEPT ![i] =
                          [op |-> tasks[i].op, todo |-> Tail(tasks[i].todo), pc |-> "run",
                           held |-> tasks[i].held \cup {<<step.lock, step.mode>>}]]
    /\ UNCHANGED <<StoreVars, clock, last>>

\* The guard is dropped.
LockRelease(i) ==
    /\ tasks[i].pc = "run" /\ tasks[i].todo # <<>>
    /\ Head(tasks[i].todo).act = "release"
    /\ LET step == Head(tasks[i].todo)
       IN /\ locks' = [locks EXCEPT ![step.lock] =
                          [writer |-> NoTask, readers |-> locks[step.lock].readers \ {i},
                           queue |-> locks[step.lock].queue]]
          /\ tasks' = [tasks EXCEPT ![i] =
                          [op |-> tasks[i].op, todo |-> Tail(tasks[i].todo), pc |-> "run",
                           held |-> tasks[i].held \ {<<step.lock, step.mode>>}]]
    /\ UNCHANGED <<StoreVars, clock, last>>

NextLocks == \E i \in CallIds : LockRequest(i) \/ LockGrant(i) \/ LockRelease(i)

\* The runtime keeps polling a task that can run.
FairSpecLocks == InitLocks /\ [][NextLocks]_vars /\ WF_vars(NextLocks)

\* ================================================================= claims
ObjId(b, k) == generate_object_id(b, k)
HasSidecar(b, k) == <<b, ObjId(b, k)>> \in DOMAIN sidecars
Sidecar(b, k) == sidecars[<<b, ObjId(b, k)>>]
HasData(b, k) == <<b, ObjId(b, k)>> \in DOMAIN datafiles
Indexed(b, k) == b \in DOMAIN object_index /\ k \in DOMAIN object_index[b]
Elems(seq) == {seq[i] : i \in 1..Len(seq)}
\* The ids etag_index[b] lists under etag e, and under any etag.
IdsUnder(index, b, e) ==
    IF b \in DOMAIN index /\ e \in DOMAIN index[b]
    THEN Elems(index[b][e]) ELSE {}
EtagIds(b, e) == IdsUnder(etag_index, b, e)
AllEtagIds(b) ==
    IF b \in DOMAIN etag_index
    THEN UNION {Elems(etag_index[b][e]) : e \in DOMAIN etag_index[b]} ELSE {}
\* The sidecar paths of bucket b.
SidecarsIn(b) == {p \in DOMAIN sidecars : p[1] = b}

\* The transition is the put of these arguments (any limits).
PutStep(b, k, data, um, mode) ==
    /\ last'.op = "put" /\ last'.bucket = b /\ last'.key = k /\ last'.mode = mode
    /\ \E r \in {put_object_with_deduplication(St, b, k, data, OctetStream, um, mode, clock)} :
          /\ Install(r.st)
          /\ last' = [op |-> "put", bucket |-> b, key |-> k, mode |-> mode,
                      status |-> r.status, branch |-> r.branch, obj |-> r.obj,
                      before |-> get_bucket_object_count(St, b)]
          /\ clock' = clock

\* The transition is the delete_object of (b, k).
DeleteStep(b, k) ==
    /\ last'.op = "delete" /\ last'.bucket = b /\ last'.key = k
    /\ clock' = clock

\* C1: after a successful put returning object o in bucket b, get(b, o.key)
\* succeeds and returns bytes whose quoted MD5 equals o.etag and whose length
\* equals the size in o.key's sidecar.
C1_PutThenGetReturnsPutBytes ==
    (last.op = "put" /\ last.status = "ok") =>
        LET o == Unwrap(last.obj)
            g == get_object(St, last.bucket, o.key)
        IN /\ g.status = "ok"
           /\ generate_etag(Unwrap(g.data)) = o.etag
           /\ Len(Unwrap(g.data)) = Unwrap(g.metadata).size

\* C2: a put with policy Allow into a registered bucket with a valid key
\* succeeds and leaves a standalone object under the key: its own data file,
\* a sidecar with no data_holder_id and reference_count 0, and entries in
\* both indexes.
C2_AllowPutStoresStandalone ==
    (/\ last.op = "put" /\ last.mode = "Allow"
     /\ last.bucket \in DOMAIN buckets
     /\ validate_object_key(last.key) = "ok") =>
        /\ last.status = "ok"
        /\ HasSidecar(last.bucket, last.key)
        /\ Sidecar(last.bucket, last.key).data_holder_id = None
        /\ Sidecar(last.bucket, last.key).reference_count = 0
        /\ HasData(last.bucket, last.key)
        /\ Indexed(last.bucket, last.key)
        /\ object_index[last.bucket][last.key] = ObjId(last.bucket, last.key)
        /\ ObjId(last.bucket, last.key)
               \in EtagIds(last.bucket, Sidecar(last.bucket, last.key).etag)

\* C3: a put of the bytes the key already holds (the key maps to a sidecar
\* with the same etag) succeeds, rewrites no data file, keeps created_at,
\* sets last_modified to now, replaces user_metadata and changes neither index.
C3_SameKeySameBytesIsIdempotent ==
    [][\A t \in CoreTargets, data \in Datas, um \in UserMetas, mode \in Modes :
        (/\ Indexed(t[1], t[2]) /\ HasSidecar(t[1], t[2])
         /\ Sidecar(t[1], t[2]).etag = generate_etag(data)
         /\ PutStep(t[1], t[2], data, um, mode))
        => /\ last'.status = "ok"
           /\ datafiles' = datafiles
           /\ HasSidecar(t[1], t[2])'
           /\ Sidecar(t[1], t[2])'.created_at = Sidecar(t[1], t[2]).created_at
           /\ Sidecar(t[1], t[2])'.last_modified = clock
           /\ Sidecar(t[1], t[2])'.user_metadata = um
           /\ object_index' = object_index
           /\ etag_index' = etag_index]_vars

\* C4: under policy Reject, a put of bytes whose etag is held by a sidecar of
\* a different key in the same bucket fails with the duplicate-content error,
\* the error names every such key, and the store is left unchanged.
C4_RejectDuplicateFailsUnchanged ==
    [][\A t \in CoreTargets, data \in Datas, um \in UserMetas :
        LET dup == {p \in SidecarsIn(t[1]) :
                        /\ sidecars[p].key # t[2]
                        /\ sidecars[p].etag = generate_etag(data)}
            r == put_object_with_deduplication(St, t[1], t[2], data, OctetStream,
                                               um, "Reject", clock)
        IN (dup # {} /\ PutStep(t[1], t[2], data, um, "Reject"))
           => /\ last'.status = "duplicate_content"
              /\ \A p \in dup : sidecars[p].key \in Elems(r.keys)
              /\ UNCHANGED StoreVars]_vars

C4_RejectDuplicateSeen ==
    /\ last.op = "put" /\ last.mode = "Reject"
    /\ last.status = "duplicate_content"
    /\ \E p \in SidecarsIn(last.bucket) : sidecars[p].key # last.key

\* C5: when bytes were just put successfully under k1 and the same bytes are
\* then put under a different key k2 with policy Reference, the second put
\* succeeds, k2's sidecar has data_holder_id set, the holder's reference_count
\* is at least 1, and get(b,k1) and get(b,k2) succeed with the same bytes.
C5_ReferencePutSharesBytes ==
    [][\A t \in CoreTargets, k1 \in {KA, KB}, data \in Datas, um \in UserMetas :
        (/\ k1 # t[2]
         /\ last.op = "put" /\ last.status = "ok"
         /\ last.bucket = t[1] /\ last.key = k1
         /\ Unwrap(last.obj).etag = generate_etag(data)
         /\ PutStep(t[1], t[2], data, um, "Reference"))
        => /\ last'.status = "ok"
           /\ HasSidecar(t[1], t[2])'
           /\ IsSome(Sidecar(t[1], t[2])'.data_holder_id)
           /\ LET h == <<t[1], Unwrap(Sidecar(t[1], t[2])'.data_holder_id)>>
              IN h \in DOMAIN sidecars' /\ sidecars'[h].reference_count >= 1
           /\ get_object(St, t[1], k1)'.status = "ok"
           /\ get_object(St, t[1], t[2])'.status = "ok"
           /\ get_object(St, t[1], k1)'.data = get_object(St, t[1], t[2])'.data]_vars

\* C6: a Reference put that finds a duplicate adds exactly 1 to the chosen
\* holder's reference_count and changes no other field of the holder's
\* sidecar, writes a sidecar for (bucket,key) with data_holder_id = holder id
\* and reference_count 0, registers the key in both indexes, and writes,
\* changes or removes no data file.
C6_ReferencePutFrame ==
    [][\A t \in CoreTargets, data \in Datas, um \in UserMetas :
        (/\ PutStep(t[1], t[2], data, um, "Reference")
         /\ last'.branch = "reference" /\ last'.status = "ok")
        => LET new == <<t[1], ObjId(t[1], t[2])>>
               h == <<t[1], Unwrap(sidecars'[new].data_holder_id)>>
           IN /\ new \in DOMAIN sidecars'
              /\ IsSome(sidecars'[new].data_holder_id)
              /\ sidecars'[new].reference_count = 0
              /\ h # new /\ h \in DOMAIN sidecars /\ h \in DOMAIN sidecars'
              /\ sidecars'[h] = [sidecars[h] EXCEPT !.reference_count = @ + 1]
              /\ \A p \in DOMAIN sidecars' \ {new, h} :
                     p \in DOMAIN sidecars /\ sidecars'[p] = sidecars[p]
              /\ Indexed(t[1], t[2])'
              /\ object_index'[t[1]][t[2]] = ObjId(t[1], t[2])
              /\ ObjId(t[1], t[2]) \in IdsUnder(etag_index', t[1], generate_etag(data))
              /\ datafiles' = datafiles]_vars

C6_ReferencePutSeen ==
    /\ last.op = "put" /\ last.branch = "reference" /\ last.status = "ok"
    /\ HasSidecar(last.bucket, last.key)
    /\ IsSome(Sidecar(last.bucket, last.key).data_holder_id)

\* C7: delete_object on an object whose sidecar has no data_holder_id and
\* reference_count > 0 fails with the has-references error carrying the count
\* and leaves every sidecar, data file and index entry unchanged.
C7_HolderWithReferencesDeleteFails ==
    [][\A t \in CoreTargets :
        (/\ t[1] \in DOMAIN buckets
         /\ Indexed(t[1], t[2]) /\ HasSidecar(t[1], t[2])
         /\ Sidecar(t[1], t[2]).data_holder_id = None
         /\ Sidecar(t[1], t[2]).reference_count > 0
         /\ DeleteStep(t[1], t[2]))
        => /\ last'.status = "has_references"
           /\ last'.count = Sidecar(t[1], t[2]).reference_count
           /\ UNCHANGED StoreVars]_vars

C7_HasReferencesSeen ==
    /\ last.op = "delete" /\ last.status = "has_references" /\ last.count > 0
    /\ HasSidecar(last.bucket, last.key) /\ HasData(last.bucket, last.key)

\* C8: whenever no sidecar in the bucket carries data_holder_id equal to the
\* id of holder h (an indexed object with no data_holder_id), delete_object
\* on h succeeds and removes its data file, its sidecar and its entries in
\* both indexes.
C8_UnreferencedHolderDeletes ==
    [][\A t \in CoreTargets :
        (/\ t[1] \in DOMAIN buckets
         /\ Indexed(t[1], t[2]) /\ HasSidecar(t[1], t[2])
         /\ Sidecar(t[1], t[2]).data_holder_id = None
         /\ \A p \in SidecarsIn(t[1]) :
                sidecars[p].data_holder_id # Some(ObjId(t[1], t[2]))
         /\ DeleteStep(t[1], t[2]))
        => /\ last'.status = "ok"
           /\ ~HasData(t[1], t[2])'
           /\ ~HasSidecar(t[1], t[2])'
           /\ ~Indexed(t[1], t[2])'
           /\ ObjId(t[1], t[2])
                  \notin IdsUnder(etag_index', t[1], Sidecar(t[1], t[2]).etag)]_vars

C10_GetReadsHolderData ==
    (/\ last.op = "get"
     /\ last.bucket \in DOMAIN buckets
     /\ Indexed(last.bucket, last.key) /\ HasSidecar(last.bucket, last.key)) =>
        LET own == <<last.bucket, ObjId(last.bucket, last.key)>>
            m == sidecars[own]
            src == IF IsSome(m.data_holder_id)
                   THEN <<last.bucket, Unwrap(m.data_holder_id)>> ELSE own
        IN IF IsSome(m.data_holder_id) /\ src \notin DOMAIN sidecars
           THEN last.status = "holder_not_found"
           ELSE IF src \notin DOMAIN datafiles
           THEN last.status = "data_not_found"
           ELSE /\ last.status = "ok"
                /\ last.data = Some(datafiles[src])
                /\ last.metadata = Some(m)

C10_GetThroughReferenceSeen ==
    /\ last.op = "get" /\ last.status = "ok"
    /\ IsSome(Unwrap(last.metadata).data_holder_id)
    /\ Unwrap(last.metadata).key = last.key

\* The transition is the delete_bucket of name.
DeleteBucketStep(name) ==
    /\ last'.op = "delete_bucket" /\ last'.bucket = name
    /\ clock' = clock

\* C11: delete_bucket(name) fails with not-found when the bucket is not
\* registered; on a registered bucket it fails as non-empty exactly when some
\* sidecar exists for the bucket; both failures change nothing; otherwise it
\* removes the directory with everything under it and unregisters the bucket,
\* leaving the other buckets as they were.
C11_DeleteBucketOnlyWhenEmpty ==
    [][\A name \in BucketNames :
        DeleteBucketStep(name) =>
            IF name \notin DOMAIN buckets
            THEN last'.status = "bucket_not_found" /\ UNCHANGED StoreVars
            ELSE IF SidecarsIn(name) # {}
            THEN last'.status = "not_empty" /\ UNCHANGED StoreVars
            ELSE /\ last'.status = "ok"
                 /\ bucket_dirs' = bucket_dirs \ {name}
                 /\ DOMAIN buckets' = DOMAIN buckets \ {name}
                 /\ \A other \in DOMAIN buckets' : buckets'[other] = buckets[other]
                 /\ name \notin DOMAIN bucket_json'
                 /\ \A p \in DOMAIN datafiles' : p[1] # name
                 /\ object_index' = object_index]_vars

C11_NonEmptyBucketKept ==
    /\ last.op = "delete_bucket" /\ last.status = "not_empty"
    /\ last.bucket \in DOMAIN buckets
    /\ SidecarsIn(last.bucket) # {}

\* The create_bucket calls for name, and those that returned Ok.
CreateCalls(name) ==
    {i \in DOMAIN tasks : tasks[i].op = "create_bucket" /\ tasks[i].name = name}
CreateWinners(name) == {i \in CreateCalls(name) : tasks[i].result = "ok"}

\* C12: a create_bucket call that finds its name registered fails with
\* already-exists and changes neither the registry nor bucket.json; among
\* concurrent create_bucket calls for one valid name (no delete_bucket
\* running) at most one has returned Ok at any time, and exactly one once
\* all of them have returned.
C12_CreateBucketOnce ==
    [][/\ \A i \in TaskIds :
              (/\ tasks[i].pc = "check" /\ tasks'[i].pc # "check"
               /\ tasks[i].name \in DOMAIN buckets)
              => /\ tasks'[i].result = "already_exists"
                 /\ tasks'[i].pc = "done"
                 /\ buckets' = buckets /\ bucket_json' = bucket_json
       /\ \A name \in {n \in BucketNames : validate_bucket_name(n) = "ok"} :
              /\ Cardinality(CreateWinners(name)') <= 1
              /\ (/\ CreateCalls(name)' # {}
                  /\ \A i \in CreateCalls(name)' : tasks'[i].pc = "done")
                 => /\ Cardinality(CreateWinners(name)') = 1
                    /\ name \in DOMAIN buckets'
                    /\ bucket_json'[name] = buckets'[name]]_vars

C12_TwoCallsOneWinner ==
    \E name \in BucketNames :
        /\ Cardinality(CreateCalls(name)) >= 2
        /\ \A i \in CreateCalls(name) : tasks[i].pc = "done"
        /\ Cardinality(CreateWinners(name)) = 1
        /\ \E i \in CreateCalls(name) : tasks[i].result = "already_exists"

\* The running etag_index with each list taken up to order.
EtagBags(index) ==
    [b \in DOMAIN index |-> [e \in DOMAIN index[b] |-> BagOf(index[b][e])]]

\* C13: after every completed operation, the indexes a restart would build
\* from the sidecars on disk equal the running ones: the same key -> id map
\* per bucket and, per etag, the same ids with the same multiplicities.
C13_RebuildEqualsRunningIndexes ==
    /\ build_object_index(St) = object_index
    /\ build_etag_index(St) = EtagBags(etag_index)

\* C14: when a successful put(b,k,data) is followed immediately by a
\* successful delete_object(b,k), the bucket's object count is again what it
\* was before the put, object_index[b] does not contain k, and no list of
\* etag_index[b] contains k's object id.
C14_PutThenDeleteRoundTrip ==
    [][\A t \in CoreTargets :
        (/\ last.op = "put" /\ last.status = "ok"
         /\ last.bucket = t[1] /\ last.key = t[2]
         /\ DeleteStep(t[1], t[2]) /\ last'.status = "ok")
        => /\ get_bucket_object_count(St, t[1])' = last.before
           /\ ~Indexed(t[1], t[2])'
           /\ ObjId(t[1], t[2]) \notin AllEtagIds(t[1])']_vars

\* The key maps to a sidecar whose etag is e.
KeyHoldsEtag(b, k, e) ==
    /\ Indexed(b, k)
    /\ <<b, object_index[b][k]>> \in DOMAIN sidecars
    /\ sidecars[<<b, object_index[b][k]>>].etag = e

\* C15: put_object_if_not_exists fails with already-exists, changing nothing,
\* exactly when the key maps to a sidecar whose etag is that of the uploaded
\* bytes; in every other case its reply and the state it leaves are those of
\* put_object with the same arguments.
C15_PutIfNotExists ==
    [][\A t \in CoreTargets, data \in Datas :
        (/\ last'.op = "put_if_not_exists"
         /\ last'.bucket = t[1] /\ last'.key = t[2]
         /\ last'.etag = generate_etag(data))
        => IF KeyHoldsEtag(t[1], t[2], generate_etag(data))
           THEN last'.status = "already_exists" /\ UNCHANGED StoreVars
           ELSE \E p \in {put_object(St, t[1], t[2], data, OctetStream, UM0, clock)} :
                   /\ last'.status # "already_exists"
                   /\ last'.status = p.status /\ last'.obj = p.obj
                   /\ St' = p.st]_vars

C15_AlreadyExistsSeen ==
    /\ last.op = "put_if_not_exists" /\ last.status = "already_exists"
    /\ KeyHoldsEtag(last.bucket, last.key, last.etag)

\* C16: put_object_if_etag_mismatch(expected) fails with the precondition
\* error, changing nothing, exactly when the key maps to a sidecar whose etag
\* equals expected; when the key is absent or its etag differs from expected
\* its reply and the state it leaves are those of put_object.
C16_PutIfEtagMismatch ==
    [][\A t \in CoreTargets, data \in Datas, expected \in ExpectedEtags :
        (/\ last'.op = "put_if_etag_mismatch"
         /\ last'.bucket = t[1] /\ last'.key = t[2]
         /\ last'.etag = generate_etag(data) /\ last'.expected = expected)
        => IF KeyHoldsEtag(t[1], t[2], expected)
           THEN last'.status = "precondition_failed" /\ UNCHANGED StoreVars
           ELSE \E p \in {put_object(St, t[1], t[2], data, OctetStream, UM0, clock)} :
                   /\ last'.status # "precondition_failed"
                   /\ last'.status = p.status /\ last'.obj = p.obj
                   /\ St' = p.st]_vars

C16_PreconditionFailedSeen ==
    /\ last.op = "put_if_etag_mismatch" /\ last.status = "precondition_failed"
    /\ KeyHoldsEtag(last.bucket, last.key, last.expected)
    /\ last.etag # last.expected

\* The file names of the sidecars of bucket b, and of a listing's entries.
FileNamesIn(b) == {file_name(p[2]) : p \in SidecarsIn(b)}
ListedFileName(metadata) ==
    file_name(generate_object_id(metadata.bucket_name, metadata.key))

\* C17: list_object_metadata_with_pagination returns sidecars of the bucket
\* in strictly ascending order of file name, at most max_keys of them; they
\* are the first ones (in that order) among all sidecars when no marker is
\* given, and among those strictly after the sidecar whose file name equals
\* the marker when one is given; a client paging with marker = last file name
\* of the previous page never sees a sidecar twice and, when it stops on an
\* empty page, has seen every sidecar.
C17_PaginationEnumeratesInFileOrder ==
    /\ last.op = "list_metadata" =>
          LET objects == last.objects
              names == [i \in 1..Len(objects) |-> ListedFileName(objects[i])]
              candidates ==
                  IF last.marker = None THEN FileNamesIn(last.bucket)
                  ELSE {f \in FileNamesIn(last.bucket) :
                            /\ Unwrap(last.marker) \in FileNamesIn(last.bucket)
                            /\ os_str_less(Unwrap(last.marker), f)}
              limit == IF last.max_keys = None THEN Cardinality(candidates)
                       ELSE Unwrap(last.max_keys)
          IN /\ \A i \in 1..Len(objects) :
                    /\ <<last.bucket, generate_object_id(last.bucket, objects[i].key)>>
                           \in DOMAIN sidecars
                    /\ objects[i] =
                           sidecars[<<last.bucket,
                                      generate_object_id(last.bucket, objects[i].key)>>]
             /\ \A i, j \in 1..Len(objects) : i < j => os_str_less(names[i], names[j])
             /\ Len(objects) <= limit
             /\ Len(objects) = IF Cardinality(candidates) < limit
                               THEN Cardinality(candidates) ELSE limit
             /\ \A i \in 1..Len(objects) : names[i] \in candidates
             /\ \A f \in candidates \ Elems(names) :
                    \A i \in 1..Len(objects) : os_str_less(names[i], f)
    /\ \A c \in DOMAIN tasks : tasks[c].op = "paging" =>
          /\ \A i, j \in 1..Len(tasks[c].seen) :
                 i # j => tasks[c].seen[i] # tasks[c].seen[j]
          /\ tasks[c].pc = "done" =>
                 Elems(tasks[c].seen) = {sidecars[p].key : p \in SidecarsIn(B1)}

C17_SecondPageSeen ==
    /\ last.op = "list_metadata" /\ IsSome(last.marker)
    /\ Unwrap(last.marker) \in FileNamesIn(last.bucket)
    /\ Len(last.objects) >= 1
    /\ Cardinality(SidecarsIn(last.bucket)) >= 3
    /\ \E c \in DOMAIN tasks :
          tasks[c].op = "paging" /\ tasks[c].pc = "done" /\ Len(tasks[c].seen) >= 3

\* The two common prefixes of the listing example.
Photos2024 == <<"p", "h", "o", "t", "o", "s", "/", "2", "0", "2", "4", "/">>
Photos2023 == <<"p", "h", "o", "t", "o", "s", "/", "2", "0", "2", "3", "/">>

\* C18: with photos/2024/a.jpg, photos/2024/b.jpg, photos/2023/c.jpg and
\* docs/x.txt stored, list_objects with prefix "photos/" and delimiter "/"
\* returns exactly two entries, the pseudo-entries photos/2024/ and
\* photos/2023/ (size 0, content type application/x-directory), and no real
\* object: keys are grouped by the delimiter that follows the prefix.
C18_DelimiterRollupAfterPrefix ==
    (/\ last.op = "list_objects" /\ last.status = "ok"
     /\ last.prefix = Some(PhotosPrefix) /\ last.delimiter = Some(Slash)
     /\ {sidecars[p].key : p \in SidecarsIn(last.bucket)} = ListKeys)
    => /\ Len(last.objects) = 2
       /\ {last.objects[i].key : i \in 1..Len(last.objects)} = {Photos2024, Photos2023}
       /\ \A i \in 1..Len(last.objects) :
              /\ last.objects[i].size = 0
              /\ last.objects[i].content_type = DirectoryType

\* C19: a put (any policy), get or delete_object naming an unregistered
\* bucket fails with bucket-not-found, and a put with an invalid key fails
\* with invalid-key (a put with both faults fails with either); none of them
\* changes the registry, the indexes, a sidecar or a data file.
C19_UnknownBucketOrBadKeyRejected ==
    [][\A t \in EdgeTargets :
        (/\ last'.op \in {"put", "get", "delete"}
         /\ last'.bucket = t[1] /\ last'.key = t[2] /\ clock' = clock)
        => LET unregistered == t[1] \notin DOMAIN buckets
               bad_key == last'.op = "put" /\ validate_object_key(t[2]) # "ok"
           IN (unregistered \/ bad_key)
              => /\ last'.status \in
                        (IF unregistered THEN {"bucket_not_found"} ELSE {})
                            \cup (IF bad_key THEN {"invalid_key"} ELSE {})
                 /\ UNCHANGED StoreVars]_vars

\* The (id, key) pairs object_index[b] holds, and the (id, key) pairs of the
\* sidecar files in b's directory.
IndexedPairs(b) ==
    IF b \in DOMAIN object_index
    THEN {<<object_index[b][k], k>> : k \in DOMAIN object_index[b]} ELSE {}
SidecarPairs(b) == {<<p[2], sidecars[p].key>> : p \in SidecarsIn(b)}

\* C20: after every completed create_bucket, put (any policy), delete_object
\* and delete_bucket, object_index[bucket][key] = id holds if and only if the
\* sidecar file of id exists in that bucket's directory (and is key's sidecar).
C20_ObjectIndexMatchesSidecars ==
    \A b \in DOMAIN object_index \cup {p[1] : p \in DOMAIN sidecars} :
        IndexedPairs(b) = SidecarPairs(b)

\* A delete_object has removed one key while another key of the bucket stays.
C20_DeletedOneKeptOne ==
    /\ last.op = "delete" /\ last.status = "ok"
    /\ ~Indexed(last.bucket, last.key) /\ ~HasSidecar(last.bucket, last.key)
    /\ \E k \in Keys : Indexed(last.bucket, k) /\ HasSidecar(last.bucket, k)

\* The buckets that own an index entry or a sidecar file.
KnownBuckets ==
    DOMAIN object_index \cup DOMAIN etag_index \cup {p[1] : p \in DOMAIN sidecars}
\* The (etag, id) pairs etag_index[b] holds, and those of b's sidecar files.
EtagPairs(b) ==
    IF b \in DOMAIN etag_index
    THEN UNION {{<<e, id>> : id \in Elems(etag_index[b][e])} : e \in DOMAIN etag_index[b]}
    ELSE {}
SidecarEtagPairs(b) == {<<sidecars[p].etag, p[2]>> : p \in SidecarsIn(b)}

\* C21: after every completed operation, etag_index[bucket][e] contains id
\* if and only if the sidecar of id exists and its etag field equals e.
C21_EtagIndexMatchesSidecars ==
    \A b \in KnownBuckets : EtagPairs(b) = SidecarEtagPairs(b)

\* The sidecar paths whose sidecar carries a data_holder_id.
References == {p \in DOMAIN sidecars : IsSome(sidecars[p].data_holder_id)}
HolderPath(p) == <<p[1], Unwrap(sidecars[p].data_holder_id)>>

\* C22: after every completed operation, every sidecar with data_holder_id = h
\* has a sidecar for h and a data file at h's data path, so get on every
\* indexed reference succeeds.
C22_NoDanglingReference ==
    \A p \in References :
        /\ HolderPath(p) \in DOMAIN sidecars
        /\ HolderPath(p) \in DOMAIN datafiles
        /\ Indexed(p[1], sidecars[p].key)
           => get_object(St, p[1], sidecars[p].key).status = "ok"

\* C23: in every reachable state, no sidecar's data_holder_id names an object
\* whose own sidecar has data_holder_id set.
C23_HoldersNeverChain ==
    \A p \in References :
        HolderPath(p) \in DOMAIN sidecars => HolderPath(p) \notin References

\* C24: after every completed operation, every sidecar with no data_holder_id
\* and reference_count = n > 0 has at least n other sidecars in the same
\* bucket whose data_holder_id is its id.
PointersTo(h) == {p \in References : p # h /\ HolderPath(p) = h}
C24_ReferenceCountBoundedByPointers ==
    \A h \in DOMAIN sidecars \ References :
        sidecars[h].reference_count > 0
        => Cardinality(PointersTo(h)) >= sidecars[h].reference_count

\* C25: after every completed operation, for every sidecar with no
\* data_holder_id the etag field equals the quoted MD5 of the bytes in the
\* data file at that object's data path.
C25_HolderEtagIsMd5OfDataFile ==
    \A h \in DOMAIN sidecars \ References :
        /\ h \in DOMAIN datafiles
        /\ sidecars[h].etag = generate_etag(datafiles[h])

\* A put has written a second standalone object next to one with other bytes.
C25_TwoHoldersSeen ==
    /\ last.op = "put" /\ last.status = "ok" /\ last.branch = "written"
    /\ \E h1, h2 \in DOMAIN sidecars \ References :
          /\ h1[2] = ObjId(last.bucket, last.key)
          /\ sidecars[h1].etag # sidecars[h2].etag
          /\ datafiles[h1] # datafiles[h2]

\* Every call has returned.
AllReturned == \A i \in CallIds : tasks[i].pc = "done"
\* Task i writes the holder's sidecar back in this step.
SavesHolder(i) == tasks[i].pc = "save_holder" /\ tasks'[i].pc # "save_holder"
\* Task j adds or removes a reference to the holder task i updates, under
\* another key; a put does so under a key that has no object yet.
TouchesSameHolder(i, j) ==
    /\ i # j
    /\ tasks[j].branch = "reference" /\ tasks[j].holder_id = tasks[i].holder_id
    /\ tasks[j].key # tasks[i].key
    /\ \A t \in {i, j} :
          tasks[t].op = "put" => ~Indexed(tasks[t].bucket_name, tasks[t].key)

\* C26: reference-count increments and decrements on a holder are atomic
\* read-modify-write steps: when two Reference puts under different new keys,
\* or a Reference put and a reference delete, run against the same holder,
\* the count a task writes back is the count on disk plus one (put) or minus
\* one (delete), so no update is lost.
C26_ReferenceCountUpdatesAtomic ==
    [][\A i, j \in CallIds :
        (/\ SavesHolder(i) /\ TouchesSameHolder(i, j)
         /\ <<tasks[i].bucket_name, Unwrap(tasks[i].holder_id)>> \in DOMAIN sidecars)
        => LET h == <<tasks[i].bucket_name, Unwrap(tasks[i].holder_id)>>
           IN sidecars'[h].reference_count =
                  sidecars[h].reference_count + (IF tasks[i].op = "put" THEN 1 ELSE -1)]_vars

\* The etags under which etag_index[b] lists id.
EtagsListing(b, id) ==
    IF b \in DOMAIN etag_index
    THEN {e \in DOMAIN etag_index[b] : id \in Elems(etag_index[b][e])} ELSE {}

\* C27: when two writers put different bytes to the same (bucket, key)
\* concurrently, after both complete the data file, the sidecar and both
\* indexes reflect one writer: the sidecar's etag is the MD5 of the data file
\* and the key's id is in etag_index only under that etag.
C27_LastWriterWins ==
    \A i, j \in CallIds :
        (/\ AllReturned /\ i # j
         /\ \A t \in {i, j} : /\ tasks[t].op = "put" /\ tasks[t].result = "ok"
                              /\ tasks[t].branch = "written"
         /\ tasks[i].bucket_name = tasks[j].bucket_name /\ tasks[i].key = tasks[j].key
         /\ tasks[i].data # tasks[j].data)
        => LET b == tasks[i].bucket_name
               p == <<b, ObjId(b, tasks[i].key)>>
           IN /\ p \in DOMAIN sidecars /\ p \in DOMAIN datafiles
              /\ sidecars[p].etag = generate_etag(datafiles[p])
              /\ Indexed(b, tasks[i].key) /\ object_index[b][tasks[i].key] = p[2]
              /\ EtagsListing(b, p[2]) = {sidecars[p].etag}

\* Nothing of bucket b is left on disk or in the indexes.
BucketGone(b) ==
    /\ b \notin bucket_dirs /\ b \notin DOMAIN bucket_json
    /\ \A p \in DOMAIN sidecars \cup DOMAIN datafiles : p[1] # b
    /\ b \notin DOMAIN object_index /\ b \notin DOMAIN etag_index

\* C28: in any interleaving of delete_bucket(b) with puts into b, once all
\* calls have returned an unregistered bucket b has no directory, sidecar or
\* data file and no entry in object_index or etag_index, and no put into b
\* returns success after b was unregistered.
C28_BucketDestroyedOnlyWhenEmpty ==
    /\ [](\A i \in CallIds :
            (/\ AllReturned /\ tasks[i].op = "delete_bucket" /\ tasks[i].result = "ok"
             /\ \A j \in CallIds \ {i} : tasks[j].op = "put"
             /\ tasks[i].bucket_name \notin DOMAIN buckets)
            => BucketGone(tasks[i].bucket_name))
    /\ [][\A i \in CallIds :
            (/\ tasks[i].op = "put" /\ tasks[i].result = "pending"
             /\ tasks'[i].result = "ok")
            => tasks[i].bucket_name \in DOMAIN buckets']_vars

\* Every indexed key has its sidecar, and its data file when it is standalone;
\* every id etag_index lists has its sidecar.
IndexHitsHaveDiskState ==
    /\ \A b \in DOMAIN object_index : \A k \in DOMAIN object_index[b] :
          LET p == <<b, object_index[b][k]>>
          IN /\ p \in DOMAIN sidecars
             /\ sidecars[p].data_holder_id = None => p \in DOMAIN datafiles
    /\ \A b \in DOMAIN etag_index : \A id \in AllEtagIds(b) : <<b, id>> \in DOMAIN sidecars

\* C29: in every put path the sidecar, and for a standalone object the data
\* file, are written before the key is inserted into object_index and
\* etag_index: while only puts run, no state, intermediate ones included, has
\* an index entry whose sidecar (or standalone data file) is absent.
C29_PutPublishesDiskBeforeIndex ==
    (\A i \in CallIds : tasks[i].op = "put") => IndexHitsHaveDiskState

\* A standalone put and a Reference put have both written their sidecar and
\* not yet inserted their key.
C29_WrittenNotYetIndexed ==
    \E i, j \in CallIds :
        /\ tasks[i].op = "put" /\ tasks[i].branch = "written" /\ tasks[i].pc = "add_index"
        /\ tasks[j].op = "put" /\ tasks[j].branch = "reference" /\ tasks[j].pc = "add_index"
        /\ \A t \in {i, j} : /\ HasSidecar(tasks[t].bucket_name, tasks[t].key)
                             /\ ~Indexed(tasks[t].bucket_name, tasks[t].key)
        /\ HasData(tasks[i].bucket_name, tasks[i].key)

\* C30: in delete_object (reference and holder branches) the key is removed
\* from object_index and etag_index before its sidecar and data file are
\* removed: while only delete_object calls run, no state, intermediate ones
\* included, has an index entry whose sidecar or data file is missing.
C30_DeleteUnpublishesIndexBeforeDisk ==
    (\A i \in CallIds : tasks[i].op = "delete_object") => IndexHitsHaveDiskState

\* C31: a get_object that runs concurrently with a delete_object or an
\* overwriting put on the same key either fails or returns bytes and metadata
\* that belong together: the quoted MD5 of the bytes is the metadata's etag.
C31_GetReturnsMatchingBytesAndMetadata ==
    \A i, j \in CallIds :
        (/\ i # j /\ tasks[i].op = "get_object" /\ tasks[i].result = "ok"
         /\ tasks[j].op \in {"put", "delete_object"}
         /\ tasks[j].bucket_name = tasks[i].bucket_name /\ tasks[j].key = tasks[i].key)
        => generate_etag(tasks[i].data) = Unwrap(tasks[i].metadata).etag

\* C32: after rebuild_object_index completes with no other operation in
\* flight, object_index and etag_index both equal the maps derived from the
\* sidecars on disk.
C32_RebuildRepairsBothIndexes ==
    last.op = "rebuild_object_index"
    => /\ object_index = build_object_index(St)
       /\ EtagBags(etag_index) = build_etag_index(St)

\* What bucket c holds: its sidecars, its data files and its two index entries.
BucketContents(c, sc, df, oi, ei) ==
    [sidecars |-> [p \in {q \in DOMAIN sc : q[1] = c} |-> sc[p]],
     datafiles |-> [p \in {q \in DOMAIN df : q[1] = c} |-> df[p]],
     object_index |-> IF c \in DOMAIN oi THEN <<oi[c]>> ELSE <<>>,
     etag_index |-> IF c \in DOMAIN ei THEN <<ei[c]>> ELSE <<>>]

\* C33: a put, get, delete_object or list on bucket b leaves the sidecars,
\* data files, object_index and etag_index entries of every other bucket as
\* they were, and the holder a Reference put names is an object of b itself,
\* never one of another bucket.
C33_BucketIsolation ==
    [][last'.op \in {"put", "get", "delete", "list_objects"}
       => /\ \A c \in BothNames \ {last'.bucket} :
                BucketContents(c, sidecars', datafiles', object_index', etag_index')
                = BucketContents(c, sidecars, datafiles, object_index, etag_index)
          /\ (last'.op = "put" /\ last'.branch = "reference" /\ last'.status = "ok")
             => LET b == last'.bucket
                    h == Unwrap(sidecars'[<<b, generate_object_id(b, last'.key)>>].data_holder_id)
                IN /\ <<b, h>> \in DOMAIN sidecars
                   /\ sidecars[<<b, h>>].bucket_name = b
                   /\ \A c \in BothNames \ {b} : <<c, h>> \notin DOMAIN sidecars]_vars

\* A Reference put has just referenced a holder of its own bucket while the
\* other bucket holds an object with the same etag.
C33_ReferenceBesideTwinBucket ==
    /\ last.op = "put" /\ last.branch = "reference" /\ last.status = "ok"
    /\ \E c \in BothNames \ {last.bucket} : \E p \in SidecarsIn(c) :
          sidecars[p].etag = sidecars[<<last.bucket, generate_object_id(last.bucket, last.key)>>].etag

\* The key's prefix up to and including the first occurrence of delim, or
\* <<>> when the key does not contain delim.
UpToFirst(key, delim) ==
    LET ends == {n \in Len(delim)..Len(key) : SubSeq(key, n - Len(delim) + 1, n) = delim}
    IN IF ends = {} THEN <<>>
       ELSE SubSeq(key, 1, CHOOSE n \in ends : \A m \in ends : n <= m)

\* The entries that survive the page and the prefix filter, before roll-up.
Surviving ==
    list_objects(St, last.bucket, last.prefix, None, last.max_keys, last.marker, clock).objects

\* The surviving positions that produce an output entry: keys without the
\* delimiter, and the first key of each common prefix.
Emitting(entries, delim) ==
    {i \in 1..Len(entries) :
        \/ UpToFirst(entries[i].key, delim) = <<>>
        \/ \A j \in 1..(i - 1) :
              UpToFirst(entries[j].key, delim) # UpToFirst(entries[i].key, delim)}

\* C34: with a delimiter, list_objects turns every surviving entry whose key
\* contains the delimiter into a pseudo-entry keyed by the key's prefix up to
\* and including the first delimiter occurrence (size 0, content type
\* application/x-directory), emits each distinct pseudo-entry once, where it
\* first appears, and emits the entries without the delimiter unchanged and
\* in their original order.
C34_DelimiterRollsUpFirstOccurrence ==
    (last.op = "list_objects" /\ last.status = "ok" /\ IsSome(last.delimiter))
    => LET delim == Unwrap(last.delimiter)
           entries == Surviving
           emitting == Emitting(entries, delim)
       IN /\ Len(last.objects) = Cardinality(emitting)
          /\ \A i \in emitting :
                LET out == last.objects[Cardinality({j \in emitting : j <= i})]
                    rolled == UpToFirst(entries[i].key, delim)
                IN IF rolled = <<>> THEN out = entries[i]
                   ELSE /\ out.key = rolled
                        /\ out.size = 0
                        /\ out.content_type = DirectoryType

\* A listing has rolled two keys into one pseudo-entry and kept two entries
\* without the delimiter as they were.
C34_RolledAndKeptSeen ==
    /\ last.op = "list_objects" /\ last.status = "ok" /\ IsSome(last.delimiter)
    /\ Len(Surviving) = 4 /\ Len(last.objects) = 3
    /\ Cardinality({i \in 1..3 : last.objects[i].content_type = DirectoryType}) = 1

\* C35: a put is refused as duplicate content (by the Reject policy or by the
\* check inside put_object) only if some sidecar of the bucket has the etag
\* of the uploaded bytes, and a Reference put names a holder whose data file
\* holds bytes with that etag; so after put(k, X), put(k, Y) a put of X is
\* not refused and a Reference put of X does not point at Y.
C35_DuplicateOnlyOfCurrentEtag ==
    [][\A t \in CoreTargets, data \in Datas, mode \in Modes :
          PutStep(t[1], t[2], data, UM0, mode)
          => /\ last'.status \in {"duplicate_content", "content_exists"}
                => \E p \in SidecarsIn(t[1]) : sidecars[p].etag = generate_etag(data)
             /\ (last'.status = "ok" /\ last'.branch = "reference")
                => LET holder == <<t[1], Unwrap(sidecars'[<<t[1], generate_object_id(t[1], t[2])>>].data_holder_id)>>
                   IN /\ holder \in DOMAIN sidecars'
                      /\ sidecars'[holder].etag = generate_etag(data)
                      /\ holder \in DOMAIN datafiles'
                         => generate_etag(datafiles'[holder]) = generate_etag(data)]_vars

\* C36: when every put into a bucket uses the Reject policy, no state, in any
\* interleaving of concurrent puts of the same bytes under different keys,
\* has two distinct keys of the bucket whose sidecars carry the same etag.
C36_RejectKeepsEtagsUnique ==
    \A p, q \in SidecarsIn(B1) :
        sidecars[p].key # sidecars[q].key => sidecars[p].etag # sidecars[q].etag

\* No call waits for a lock while it holds another one, except delete_bucket
\* waiting for the object_index read lock under the registry write lock; no
\* call that waits for the registry lock holds an index lock.
LockOrder ==
    \A i \in CallIds :
        /\ (tasks[i].pc = "wait" /\ tasks[i].held # {})
           => /\ tasks[i].op = "delete_bucket"
              /\ tasks[i].held = {<<"buckets", "write">>}
              /\ Head(tasks[i].todo) = Acquire("object_index", "read")
        /\ (tasks[i].pc = "wait" /\ Head(tasks[i].todo).lock = "buckets")
           => tasks[i].held = {}
        /\ Cardinality(tasks[i].held) > 1
           => /\ tasks[i].op = "delete_bucket"
              /\ tasks[i].held = {<<"buckets", "write">>, <<"object_index", "read">>}

\* C37: under fair scheduling every create_bucket, delete_bucket, put, get
\* and delete_object completes in every interleaving; the only nested lock
\* acquisition is delete_bucket taking the object_index read lock while it
\* holds the registry write lock, and no call waits for the registry lock
\* while it holds the object_index or etag_index lock.
C37_DeadlockFreedom ==
    /\ []LockOrder
    /\ <>(\A i \in CallIds : tasks[i].todo = <<>>)

\* delete_bucket holds the registry write lock and the object_index read
\* lock while another call waits in the queue of the registry lock.
C37_NestedWhileOthersWait ==
    \E i, j \in CallIds :
        /\ tasks[i].op = "delete_bucket"
        /\ tasks[i].held = {<<"buckets", "write">>, <<"object_index", "read">>}
        /\ tasks[j].pc = "wait" /\ Head(tasks[j].todo).lock = "buckets"

\* C38: after every completed operation of a sequential history, every data
\* file of a bucket has a sidecar with the same object id, and that sidecar
\* names no data holder: no data file is orphaned, also when a Reference put
\* lands on a key that held a standalone object with other bytes.
C38_NoOrphanedData ==
    \A p \in DOMAIN datafiles :
        p \in DOMAIN sidecars /\ sidecars[p].data_holder_id = None

\* How often id occurs in the list etag_index[b][e] of index (0 without one).
Occurrences(index, b, e, id) ==
    IF b \in DOMAIN index /\ e \in DOMAIN index[b]
    THEN Cardinality({n \in 1..Len(index[b][e]) : index[b][e][n] = id})
    ELSE 0

\* No etag of index has an empty list and no bucket an empty map.
NoEmptyEntry(index) ==
    \A b \in DOMAIN index :
        /\ DOMAIN index[b] # {}
        /\ \A e \in DOMAIN index[b] : index[b][e] # <<>>

\* C39: remove_etag_from_index(bucket, etag, id) removes exactly one
\* occurrence of id from etag_index[bucket][etag], drops the etag entry when
\* its list becomes empty and the bucket entry when its map becomes empty,
\* and leaves every other list and the object_index as they were; so no
\* reachable etag_index holds an empty list or an empty per-bucket map.
C39_RemoveEtagRemovesOneOccurrence ==
    /\ NoEmptyEntry(etag_index)
    /\ \A t \in CoreTargets, data \in Datas :
          LET b == t[1]
              id == generate_object_id(t[1], t[2])
              e == generate_etag(data)
              after == remove_etag_from_index(St, b, e, id)
          IN /\ Occurrences(etag_index, b, e, id) > 0
                => Occurrences(after.etag_index, b, e, id)
                       = Occurrences(etag_index, b, e, id) - 1
             /\ \A u \in CoreTargets, other \in Datas :
                   (u # t \/ other # data)
                   => Occurrences(after.etag_index, u[1], generate_etag(other),
                                  generate_object_id(u[1], u[2]))
                      = Occurrences(etag_index, u[1], generate_etag(other),
                                    generate_object_id(u[1], u[2]))
             /\ after.object_index = object_index
             /\ NoEmptyEntry(after.etag_index)

====
